---- MODULE Spec2Model ----
(***************************************************************************)
(* A model of the map generator of WebGisMapGenerationTool:                *)
(* create_map_fcc_towers (src/Generators/FCCTower.py) run on one region.   *)
(* The run is a sequence of steps, one per numbered section of the         *)
(* function; the folium map m collects the feature groups in the order     *)
(* the code adds them, and the run ends either by saving the artifact      *)
(* (pc = "done") or by an exception (pc = "raised").                       *)
(***************************************************************************)
EXTENDS Integers, Sequences, FiniteSets, TLC

VARIABLES
    args,      \* the arguments of create_map_fcc_towers
    disk,      \* the files and folders the run reads
    pc,        \* the section of create_map_fcc_towers the run is at
    frame,     \* the local variables bound so far: name -> value
    m,         \* the folium.Map: tile layers, feature groups, layer control
    raised,    \* the exception that ended the run, "" when none
    written,   \* the artifacts saved: a set of [out_file, layers]
    batch      \* the run of generate_all_maps: its region list, loop and counters

vars == <<args, disk, pc, frame, m, raised, written, batch>>

----------------------------------------------------------------------------
(* Bounds of the model *)

\* at most this many cells in a density grid file
MaxCells == 2
\* at most this many entries in a WISP folder listing
MaxWispFiles == 2
\* at most this many records in an infrastructure (antenna) file
MaxTowers == 2
\* a non-empty point file holds this many points
MaxPoints == 1
\* at most this many rows in a license table
MaxLicenses == 2

----------------------------------------------------------------------------
(* Values *)

\* Python's '' and None are both falsy: an argument left out
NoPath == ""

Truthy(path) == path # NoPath

\* a GeoDataFrame of n rows, and the None a variable holds when nothing is loaded
DataFrame(n) == [none |-> FALSE, rows |-> n]
None == [none |-> TRUE, rows |-> 0]

Empty(df) == df.rows = 0

RECURSIVE SeqsUpTo(_, _)
\* the sequences over S of length at most n
SeqsUpTo(S, n) ==
    IF n = 0 THEN {<<>>}
    ELSE LET shorter == SeqsUpTo(S, n - 1)
         IN  shorter \cup {Append(s, x) : s \in {t \in shorter : Len(t) = n - 1}, x \in S}

\* the sequences over S without repetition of length at most n
DistinctSeqsUpTo(S, n) ==
    {s \in SeqsUpTo(S, n) : \A i, j \in 1..Len(s) : i # j => s[i] # s[j]}

Range(s) == {s[i] : i \in 1..Len(s)}

----------------------------------------------------------------------------
(* Strings: a Python str is modelled by the sequence of its characters where *)
(* the code looks inside it (lower, strip, in)                               *)

UpperCase ==
    <<"A", "B", "C", "D", "E", "F", "G", "H", "I", "J", "K", "L", "M", "N", "O", "P", "Q", "R", "S", "T", "U", "V", "W", "X", "Y", "Z">>

LowerCase ==
    <<"a", "b", "c", "d", "e", "f", "g", "h", "i", "j", "k", "l", "m", "n", "o", "p", "q", "r", "s", "t", "u", "v", "w", "x", "y", "z">>

\* str.lower
str_lower(s) ==
    [i \in 1..Len(s) |->
        IF \E k \in 1..Len(UpperCase) : UpperCase[k] = s[i]
        THEN LowerCase[CHOOSE k \in 1..Len(UpperCase) : UpperCase[k] = s[i]]
        ELSE s[i]]

\* str.strip: the blanks at both ends removed
str_strip(s) ==
    LET inked == {i \in 1..Len(s) : s[i] # " "}
    IN  IF inked = {} THEN <<>>
        ELSE SubSeq(s, CHOOSE i \in inked : \A j \in inked : i <= j,
                       CHOOSE i \in inked : \A j \in inked : j <= i)

\* pattern in s: the pattern is a substring of s
str_in(pattern, s) ==
    \E i \in 0..(Len(s) - Len(pattern)) : SubSeq(s, i + 1, i + Len(pattern)) = pattern

----------------------------------------------------------------------------
(* The region's files *)

RequiredFiles ==
    {"State Outline.sqlite", "County Outline.sqlite",
     "BEAD Eligible Locations.sqlite", "BEAD Grid Analysis Layer.sqlite"}

AntennaPath == "FCC Antenna Structures.sqlite"
Round2Path == "BEAD Eligible Locations Round 2.sqlite"
CaiPath == "BEAD Eligible CAIs.sqlite"
CciDsPath == "CCI DSL.sqlite"
CciFiberPath == "CCI Fiber.sqlite"
CbrsPath == "CBRSCounties.xlsx"

OptionalFiles == {AntennaPath, Round2Path, CaiPath, CciDsPath, CciFiberPath, CbrsPath}

WispHexFolder == "WISPs Hex Dissolved"
WispDissolvedFolder == "WISPs Dissolved"
WispFolders == {WispHexFolder, WispDissolvedFolder}

\* a directory entry: its name without the extension (and the characters of
\* that name), the extension, and the number of features the file holds
WispEntries ==
    {[stem |-> "AT&T", chars |-> <<"A", "T", "&", "T">>, ext |-> ".sqlite", rows |-> MaxPoints],
     [stem |-> "Acme Wireless", chars |-> <<"A", "c", "m", "e", " ", "W", "i", "r", "e", "l", "e", "s", "s">>,
      ext |-> ".sqlite", rows |-> MaxPoints],
     [stem |-> "verizon fixed ", chars |-> <<"v", "e", "r", "i", "z", "o", "n", " ", "f", "i", "x", "e", "d", " ">>,
      ext |-> ".sqlite", rows |-> 0],
     [stem |-> "readme", chars |-> <<"r", "e", "a", "d", "m", "e">>, ext |-> ".txt", rows |-> 0]}

\* the directory entry of the name
WispEntry(stem) == CHOOSE entry \in WispEntries : entry.stem = stem

\* os.path.exists
Exists(path) == path \in disk.files \cup disk.dirs

\* os.path.isdir
IsDir(path) == path \in disk.dirs

StateNames == {"Maine", "maine", "Texas", "Atlantis"}

\* str.lower on the region names of the model
Lower(name) ==
    CASE name = "Maine" -> "maine"
      [] name = "maine" -> "maine"
      [] name = "Texas" -> "texas"
      [] name = "Atlantis" -> "atlantis"

\* str.title on the region names of the model
Title(name) ==
    CASE name = "Maine" -> "Maine"
      [] name = "maine" -> "Maine"
      [] name = "Texas" -> "Texas"
      [] name = "Atlantis" -> "Atlantis"

\* the entries of STATE_NAME_TO_ABBR for the region names of the model
STATE_NAME_TO_ABBR == [n \in {"Maine", "Texas"} |-> IF n = "Maine" THEN "ME" ELSE "TX"]

NoAbbr == "None"

\* a name with no abbreviation treated as a region of Texas
get_state_abbreviation_default(state_name) ==
    IF state_name \in DOMAIN STATE_NAME_TO_ABBR THEN STATE_NAME_TO_ABBR[state_name]
    ELSE IF Title(state_name) \in DOMAIN STATE_NAME_TO_ABBR
         THEN STATE_NAME_TO_ABBR[Title(state_name)]
    ELSE "TX"

get_state_abbreviation(state_name) ==
    IF state_name \in DOMAIN STATE_NAME_TO_ABBR THEN STATE_NAME_TO_ABBR[state_name]
    ELSE IF Title(state_name) \in DOMAIN STATE_NAME_TO_ABBR
         THEN STATE_NAME_TO_ABBR[Title(state_name)]
    ELSE IF state_name \in {"District Of Columbia", "Washington DC", "Washington D.C."}
         THEN "DC"
    ELSE NoAbbr

----------------------------------------------------------------------------
(* The license table and its join to the subdivision polygons *)

\* the rows of every state, grouped by county_name
load_cbrs_data_unfiltered(cbrs_file, state_abbr) ==
    IF ~Truthy(cbrs_file) \/ ~Exists(cbrs_file) THEN <<>>
    ELSE [c \in {row.county_name : row \in Range(disk.cbrs)} |->
             SelectSeq(disk.cbrs, LAMBDA row : row.county_name = c)]

\* load_cbrs_data_filtered: the rows of the region's state, grouped by
\* county_name, each group in source order
load_cbrs_data_filtered(cbrs_file, state_abbr) ==
    IF ~Truthy(cbrs_file) \/ ~Exists(cbrs_file) THEN <<>>
    ELSE LET state_filtered == SelectSeq(disk.cbrs, LAMBDA row : row.state_abbr = state_abbr)
         IN  [c \in {row.county_name : row \in Range(state_filtered)} |->
                 SelectSeq(state_filtered, LAMBDA row : row.county_name = c)]

\* dict.get(key, [])
Get(dict, key) == IF key \in DOMAIN dict THEN dict[key] ELSE <<>>

----------------------------------------------------------------------------
(* The density buckets *)

range_dict ==
    << [key |-> "0", range |-> <<1, 5>>, color |-> "#e4e4f3"],
       [key |-> "1", range |-> <<5, 10>>, color |-> "#d1d1ea"],
       [key |-> "2", range |-> <<10, 20>>, color |-> "#b3b3e0"],
       [key |-> "3", range |-> <<20, 30>>, color |-> "#8080c5"],
       [key |-> "4", range |-> <<30, 50>>, color |-> "#6d6dbd"],
       [key |-> "5", range |-> <<50, 75>>, color |-> "#4949ac"],
       [key |-> "6", range |-> <<75, 100>>, color |-> "#3737a4"],
       [key |-> "7", range |-> <<100, 50000>>, color |-> "#121293" ] >>

\* the row filter with the maximum inclusive too
InRangeClosed(point_count, rng) == point_count >= rng[1] /\ point_count <= rng[2]

\* the row filter of the grid loop: minimum inclusive, maximum exclusive
InRange(point_count, rng) == point_count >= rng[1] /\ point_count < rng[2]

\* the rows of the grid whose point_count lies in the range
Subset(grid, rng) == {i \in 1..Len(grid) : InRange(grid[i], rng)}

\* the geometry of grid cell i: every cell covers its own piece of ground
CellGeometry(i) == {i}

\* a union that keeps one geometry and drops the rest
unary_union_one(geometries) == CHOOSE g \in geometries : TRUE

\* shapely.ops.unary_union: the union of the geometries
unary_union(geometries) == UNION geometries

GridLayerName(rng) ==
    IF rng[1] = 100
    THEN "Grid Layer (" \o ToString(rng[1]) \o "+ Locations)"
    ELSE "Grid Layer (" \o ToString(rng[1]) \o "-" \o ToString(rng[2]) \o " Locations)"

----------------------------------------------------------------------------
(* Feature groups *)

\* folium.FeatureGroup(name, show) holding the given features
FeatureGroup(name, show, items) == [name |-> name, show |-> show, items |-> items]

\* a layer for every dataset that is loaded, an empty one for an empty dataset
add_bead_locations_layer_unguarded(locations_data, layer_name, show) ==
    IF locations_data.none THEN <<>>
    ELSE <<FeatureGroup(layer_name, show, 1..locations_data.rows)>>

\* add_bead_locations_layer: the layers it adds to the map, none for an
\* empty dataset
add_bead_locations_layer(locations_data, layer_name, show) ==
    IF locations_data.none \/ Empty(locations_data) THEN <<>>
    ELSE <<FeatureGroup(layer_name, show, 1..locations_data.rows)>>

\* add_cci_layers: a layer for each of the two files that is given and exists
add_cci_layers(cci_ds_file, cci_fiber_file) ==
    (IF Truthy(cci_ds_file) /\ Exists(cci_ds_file)
     THEN <<FeatureGroup("CCI DSL", FALSE, 1..disk.cci_ds)>> ELSE <<>>)
    \o
    (IF Truthy(cci_fiber_file) /\ Exists(cci_fiber_file)
     THEN <<FeatureGroup("CCI Fiber", FALSE, 1..disk.cci_fiber)>> ELSE <<>>)

WispLayerName(wisp_name) == "WISP - " \o wisp_name

\* the dictionary of get_wisp_color, in the order of its keys
wisp_colors ==
    << [key |-> <<"A", "T", "&", "T">>,
        color |-> "#009FDB"],
       [key |-> <<"T", "-", "M", "o", "b", "i", "l", "e">>,
        color |-> "#E20074"],
       [key |-> <<"V", "e", "r", "i", "z", "o", "n">>,
        color |-> "#E81123"],
       [key |-> <<"M", "e", "d", "i", "a", "c", "o", "m", " ", "B", "o", "l", "t">>,
        color |-> "#0033A0"],
       [key |-> <<"P", "o", "i", "n", "t", " ", "B", "r", "o", "a", "d", "b", "a", "n", "d">>,
        color |-> "#F89728"],
       [key |-> <<"C", "l", "o", "u", "d", " ", "9", " ", "W", "i", "r", "e", "l", "e", "s", "s">>,
        color |-> "#6BACE4"],
       [key |-> <<"D", "r", "a", "g", "o", "n", "f", "l", "y", " ", "I", "n", "t", "e", "r", "n", "e", "t">>,
        color |-> "#FF5733"],
       [key |-> <<"R", "a", "p", "i", "d", " ", "W", "i", "r", "e", "l", "e", "s", "s", " ", "L", "L", "C">>,
        color |-> "#28A745"],
       [key |-> <<"W", "i", "l", "d", "s", "t", "a", "r", " ", "N", "e", "t", "w", "o", "r", "k", "s">>,
        color |-> "#8E44AD"] >>

HexDigits ==
    <<"0", "1", "2", "3", "4", "5", "6", "7", "8", "9", "a", "b", "c", "d", "e", "f">>

RECURSIVE Power(_, _)
Power(base, exponent) == IF exponent = 0 THEN 1 ELSE base * Power(base, exponent - 1)

\* "#{:06x}".format(n) for 0 <= n <= 0xFFFFFF
Format06x(n) ==
    LET digit(i) == HexDigits[((n \div Power(16, i)) % 16) + 1]
    IN  "#" \o digit(5) \o digit(4) \o digit(3) \o digit(2) \o digit(1) \o digit(0)

\* the values random.randint(0, 0xFFFFFF) returns in the model
DrawValues == {0, 16777215}

\* get_wisp_color: the colour of the first key that is, in lower case, a
\* substring of the stripped lower-case name; with no such key, a colour
\* formatted from the number random.randint draws in this call
get_wisp_color(wisp_name, draw) ==
    LET matches == {k \in 1..Len(wisp_colors) :
                       str_in(str_lower(wisp_colors[k].key), str_strip(str_lower(wisp_name)))}
    IN  IF matches # {}
        THEN wisp_colors[CHOOSE k \in matches : \A j \in matches : k <= j].color
        ELSE Format06x(draw)

\* the feature group with a GeoJson of the colour in it
Styled(group, color) ==
    [name |-> group.name, show |-> group.show, items |-> group.items, color |-> color]

\* a loop that takes the entries in an order the random draw decides
wisp_layers_by_draw(listing, draws) ==
    LET n == Len(listing)
        order == IF n > 0 /\ draws[1] = 0 THEN [i \in 1..n |-> listing[n + 1 - i]] ELSE listing
    IN  [i \in 1..n |->
            Styled(FeatureGroup(WispLayerName(order[i].stem), FALSE, 1..order[i].rows),
                   wisp_colors[1].color)]

RECURSIVE wisp_layers(_, _)
\* the loop of add_wisp_layers over a directory listing: one layer per
\* .sqlite entry, in listing order, styled with the colour of its name;
\* draws[i] is what random.randint returns while entry i is handled
wisp_layers(listing, draws) ==
    IF listing = <<>> THEN <<>>
    ELSE (IF Head(listing).ext = ".sqlite"
          THEN <<Styled(FeatureGroup(WispLayerName(Head(listing).stem), FALSE,
                                     1..Head(listing).rows),
                        get_wisp_color(Head(listing).chars, Head(draws)))>>
          ELSE <<>>)
         \o wisp_layers(Tail(listing), Tail(draws))

\* os.listdir of the folder, nothing when it is no directory
Listing(wisp_folder) == IF ~IsDir(wisp_folder) THEN <<>> ELSE disk.listdir[wisp_folder]

add_wisp_layers(wisp_folder, draws) == wisp_layers(Listing(wisp_folder), draws)

RECURSIVE grid_layers(_, _)
\* the grid loop from bucket k on: one dissolved layer per bucket with rows
grid_layers(grid, k) ==
    IF k > Len(range_dict) THEN <<>>
    ELSE LET rng == range_dict[k].range
             subset == Subset(grid, rng)
         IN  (IF Cardinality(subset) = 0 THEN <<>>
              ELSE <<FeatureGroup(GridLayerName(rng), FALSE,
                                  unary_union({CellGeometry(i) : i \in subset}))>>)
             \o grid_layers(grid, k + 1)

----------------------------------------------------------------------------
(* The control flow *)

\* the sections with the overlay (WISP) section moved to the end
SectionsWispLast ==
    << "resolve", "load", "basemap", "state_outline", "county_outline", "bead",
       "cci", "grid", "antenna", "add_layers", "wisp", "layer_control", "save" >>

\* the sections with the grid section run before the eligibility section
SectionsGridFirst ==
    << "resolve", "load", "basemap", "state_outline", "county_outline", "grid",
       "bead", "cci", "wisp", "antenna", "add_layers", "layer_control", "save" >>

\* the sections of create_map_fcc_towers, in the order the code runs them
Sections ==
    << "resolve", "load", "basemap", "state_outline", "county_outline", "bead",
       "cci", "grid", "wisp", "antenna", "add_layers", "layer_control", "save" >>

\* the section after the given one; the call returns after the last
After(section) ==
    LET i == CHOOSE j \in 1..Len(Sections) : Sections[j] = section
    IN  IF i = Len(Sections) THEN "done" ELSE Sections[i + 1]

----------------------------------------------------------------------------
(* The inputs of a run *)

\* the point_count values of the grids of the model: the ends of every
\* bucket, the counts next to them, and counts outside all written ranges
CountValues ==
    {0, 1, 4, 5, 9, 10, 19, 20, 29, 30, 49, 50, 74, 75, 99, 100,
     49999, 50000, 10000000}

GroupedEntities == {"American Towers", "SBA", "Crown Castle", "Other"}

\* the subdivision polygons of the model's county outline files, by name
SampleCounties == <<"York", "Knox">>

\* a license table with rows of two states, a county in another letter case
\* and a county that is no polygon of the region
SampleCbrs ==
    << [Channel |-> 1, county_name |-> "York", bidder |-> "A", state_abbr |-> "ME"],
       [Channel |-> 2, county_name |-> "york", bidder |-> "B", state_abbr |-> "ME"],
       [Channel |-> 3, county_name |-> "York", bidder |-> "C", state_abbr |-> "TX"],
       [Channel |-> 4, county_name |-> "Bexar", bidder |-> "D", state_abbr |-> "TX"],
       [Channel |-> 5, county_name |-> "York", bidder |-> "E", state_abbr |-> "ME"] >>

\* a call that passes the region alone, as generate_map_for_state does for a
\* region folder holding the four required files and nothing else
BaseArgs ==
    [state_name |-> "Texas", antenna_file |-> NoPath, wisp_folder |-> NoPath,
     cbrs_file |-> NoPath, round2_locations_file |-> NoPath,
     cai_locations_file |-> NoPath, cci_ds_file |-> NoPath, cci_fiber_file |-> NoPath]

BaseDisk ==
    [files |-> RequiredFiles, dirs |-> {},
     listdir |-> [d \in WispFolders |-> <<>>],
     counties |-> SampleCounties, cbrs |-> SampleCbrs,
     bead |-> MaxPoints, grid |-> <<3, 150>>,
     round2 |-> 0, cai |-> 0, cci_ds |-> 0, cci_fiber |-> 0, antenna |-> <<>>,
     db |-> [has_entity |-> TRUE, rows |-> <<>>],
     html |-> <<>>]

\* an optional file: not passed and not on disk, or passed and on disk
FileOptions(path) == {[arg |-> NoPath, on_disk |-> {}], [arg |-> path, on_disk |-> {path}]}

\* the same, and passed although it is not on disk
PathOptions(path) == FileOptions(path) \cup {[arg |-> path, on_disk |-> {}]}

SampleListing == <<WispEntry("Acme Wireless"), WispEntry("AT&T")>>

\* the latitudes of the infrastructure records of the model
Latitudes == {0, 60, -60}

\* a row of an infrastructure file: its category and the latitude of its point
TowerRows == {[grouped_entity |-> g, lat |-> l] : g \in GroupedEntities, l \in Latitudes}

SampleTowers == <<[grouped_entity |-> "SBA", lat |-> 60], [grouped_entity |-> "Other", lat |-> 0]>>

\* the orders of the four categories
CategoryOrders ==
    {s \in [1..4 -> GroupedEntities] : \A i, j \in 1..4 : i # j => s[i] # s[j]}

\* every combination of the optional sources
InputsOptional ==
    {[args |-> [BaseArgs EXCEPT !.state_name = s, !.antenna_file = a.arg,
                                !.cbrs_file = c.arg, !.round2_locations_file = r.arg,
                                !.cai_locations_file = i.arg, !.cci_ds_file = d.arg,
                                !.cci_fiber_file = f.arg],
      disk |-> [BaseDisk EXCEPT !.files = RequiredFiles \cup a.on_disk \cup c.on_disk \cup
                                          r.on_disk \cup i.on_disk \cup d.on_disk \cup f.on_disk,
                                !.dirs = w,
                                !.listdir = [x \in WispFolders |-> IF x \in w THEN SampleListing ELSE <<>>],
                                !.bead = b,
                                !.round2 = IF r.on_disk = {} THEN 0 ELSE rn,
                                !.cai = IF i.on_disk = {} THEN 0 ELSE rn,
                                !.cci_ds = IF d.on_disk = {} THEN 0 ELSE rn,
                                !.cci_fiber = IF f.on_disk = {} THEN 0 ELSE rn,
                                !.antenna = IF a.on_disk = {} THEN <<>> ELSE SampleTowers]] :
        s \in {"Maine", "Texas"}, a \in PathOptions(AntennaPath), c \in FileOptions(CbrsPath),
        r \in FileOptions(Round2Path), i \in FileOptions(CaiPath),
        d \in FileOptions(CciDsPath), f \in FileOptions(CciFiberPath),
        w \in {{}, {WispHexFolder}}, b \in {0, MaxPoints}, rn \in {0, MaxPoints}}

\* every density grid, with and without an infrastructure file
InputsGrid ==
    {[args |-> [BaseArgs EXCEPT !.antenna_file = a.arg],
      disk |-> [BaseDisk EXCEPT !.files = RequiredFiles \cup a.on_disk,
                                !.grid = g,
                                !.antenna = IF a.on_disk = {} THEN <<>> ELSE SampleTowers]] :
        a \in FileOptions(AntennaPath), g \in SeqsUpTo(CountValues, MaxCells)}

\* every overlay folder: either folder name, any listing, the folder passed or found
InputsWisp ==
    {[args |-> [BaseArgs EXCEPT !.antenna_file = AntennaPath, !.wisp_folder = p],
      disk |-> [BaseDisk EXCEPT !.files = RequiredFiles \cup {AntennaPath},
                                !.antenna = SampleTowers,
                                !.dirs = w,
                                !.listdir = [x \in WispFolders |->
                                                IF x \notin w THEN <<>>
                                                ELSE IF x = WispHexFolder THEN l ELSE SampleListing]]] :
        p \in {NoPath, WispDissolvedFolder}, w \in SUBSET WispFolders,
        l \in DistinctSeqsUpTo(WispEntries, MaxWispFiles)}

\* every infrastructure file
InputsTowers ==
    {[args |-> [BaseArgs EXCEPT !.antenna_file = AntennaPath],
      disk |-> [BaseDisk EXCEPT !.files = RequiredFiles \cup {AntennaPath},
                                !.antenna = t]] :
        t \in SeqsUpTo(TowerRows, MaxTowers)}

\* every infrastructure file with exactly one record of each category
InputsOnePerCategory ==
    {[args |-> [BaseArgs EXCEPT !.antenna_file = AntennaPath],
      disk |-> [BaseDisk EXCEPT !.files = RequiredFiles \cup {AntennaPath},
                                !.antenna = [i \in 1..4 |->
                                                [grouped_entity |-> order[i], lat |-> l]]]] :
        order \in CategoryOrders, l \in Latitudes}

\* every set of required files, with and without an infrastructure file
InputsRequired ==
    {[args |-> [BaseArgs EXCEPT !.antenna_file = a.arg],
      disk |-> [BaseDisk EXCEPT !.files = q \cup a.on_disk,
                                !.antenna = IF a.on_disk = {} THEN <<>> ELSE SampleTowers]] :
        a \in FileOptions(AntennaPath), q \in SUBSET RequiredFiles}

\* every region name, with and without the license table
InputsNames ==
    {[args |-> [BaseArgs EXCEPT !.state_name = s, !.antenna_file = AntennaPath, !.cbrs_file = c.arg],
      disk |-> [BaseDisk EXCEPT !.files = RequiredFiles \cup {AntennaPath} \cup c.on_disk,
                                !.antenna = SampleTowers]] :
        s \in StateNames, c \in PathOptions(CbrsPath)}

\* the county and the state of a license row: a polygon's name, the name in
\* another letter case, and a county that is no polygon, each in two states
LicenseKeys ==
    {[county_name |-> c, state_abbr |-> a] : c \in {"York", "york", "Bexar"}, a \in {"ME", "TX"}}

\* the license table of the keys, its rows numbered in source order
LicenseTable(keys) ==
    [i \in 1..Len(keys) |->
        [Channel |-> i, county_name |-> keys[i].county_name, bidder |-> "A",
         state_abbr |-> keys[i].state_abbr]]

\* every license table, for a region with, without and with an unknown abbreviation
InputsCbrs ==
    {[args |-> [BaseArgs EXCEPT !.state_name = s, !.antenna_file = AntennaPath,
                                !.cbrs_file = CbrsPath],
      disk |-> [BaseDisk EXCEPT !.files = RequiredFiles \cup {AntennaPath, CbrsPath},
                                !.antenna = SampleTowers,
                                !.cbrs = LicenseTable(keys)]] :
        s \in {"Maine", "Texas", "Atlantis"}, keys \in SeqsUpTo(LicenseKeys, MaxLicenses)}

Inputs ==
    InputsOptional \cup InputsGrid \cup InputsWisp \cup InputsTowers
        \cup InputsOnePerCategory \cup InputsRequired \cup InputsNames \cup InputsCbrs

\* the empty map object before folium.Map is called
NoMap == [tiles |-> <<>>, layers |-> <<>>, popups |-> <<>>, control |-> FALSE]

\* no local variable is bound when the call starts
NoFrame == [n \in {} |-> None]

\* no batch is running: create_map_fcc_towers is called by itself
NoBatch == [pc |-> "none"]

\* a first call of create_map_fcc_towers on one of the inputs
Start(inputs) ==
    /\ \E input \in inputs : args = input.args /\ disk = input.disk
    /\ pc = Sections[1]
    /\ frame = NoFrame
    /\ m = NoMap
    /\ raised = ""
    /\ written = {}
    /\ batch = NoBatch

Init == Start(Inputs)

----------------------------------------------------------------------------
(* The steps of create_map_fcc_towers *)

\* the frame with the names of g bound to g's values
Bind(f, g) == [n \in DOMAIN f \cup DOMAIN g |-> IF n \in DOMAIN g THEN g[n] ELSE f[n]]

\* the map with the feature groups added to it, in order
AddTo(map, groups) == [map EXCEPT !.layers = map.layers \o groups]

\* the run ends with the exception
Raise(exception) ==
    /\ pc' = "raised"
    /\ raised' = exception

\* --- 1) Resolve file paths ---
ResolvePaths ==
    /\ pc = "resolve"
    /\ frame' = Bind(frame,
          [wisp_folder |->
               IF ~Truthy(args.wisp_folder)
               THEN IF Exists(WispHexFolder) THEN WispHexFolder
                    ELSE IF Exists(WispDissolvedFolder) THEN WispDissolvedFolder
                    ELSE args.wisp_folder
               ELSE args.wisp_folder,
           state_outline_file |-> "State Outline.sqlite",
           county_outline_file |-> "County Outline.sqlite",
           bead_eligible_locations_file |-> "BEAD Eligible Locations.sqlite",
           grid_analysis_layer_file |-> "BEAD Grid Analysis Layer.sqlite",
           output_path |-> "Results"])
    /\ pc' = After(pc)
    /\ UNCHANGED <<args, disk, m, raised, written, batch>>

\* --- 2) Load data ---  gpd.read_file raises for a file that is not there
LoadData ==
    /\ pc = "load"
    /\ IF \E file \in {frame["state_outline_file"], frame["county_outline_file"],
                       frame["bead_eligible_locations_file"],
                       frame["grid_analysis_layer_file"]} : ~Exists(file)
       THEN /\ Raise("DataSourceError")
            /\ UNCHANGED frame
       ELSE LET state_abbr == get_state_abbreviation(args.state_name)
            IN  /\ frame' = Bind(frame,
                      [state_outline |-> DataFrame(1),
                       county_outline |-> disk.counties,
                       state_abbr |-> state_abbr,
                       cbrs_data |->
                           IF state_abbr # NoAbbr /\ Truthy(args.cbrs_file)
                                  /\ Exists(args.cbrs_file)
                           THEN load_cbrs_data_filtered(args.cbrs_file, state_abbr)
                           ELSE <<>>,
                       bead_eligible_locations |-> DataFrame(disk.bead),
                       bead_eligible_locations_round_2 |->
                           IF Truthy(args.round2_locations_file)
                                  /\ Exists(args.round2_locations_file)
                           THEN DataFrame(disk.round2) ELSE None,
                       bead_eligible_cai |->
                           IF Truthy(args.cai_locations_file)
                                  /\ Exists(args.cai_locations_file)
                           THEN DataFrame(disk.cai) ELSE None,
                       grid_analysis_layer |-> disk.grid])
                /\ pc' = After(pc)
                /\ UNCHANGED raised
    /\ UNCHANGED <<args, disk, m, written, batch>>

\* --- 3) Create Folium map --- and --- 4) Base layers ---
CreateMap ==
    /\ pc = "basemap"
    /\ m' = [NoMap EXCEPT !.tiles = <<"White Background", "Google Maps", "Google Satellite">>]
    /\ pc' = After(pc)
    /\ UNCHANGED <<args, disk, frame, raised, written, batch>>

\* --- 5) State Outline ---
StateOutline ==
    /\ pc = "state_outline"
    /\ m' = AddTo(m, <<FeatureGroup("State Outline", TRUE, 1..frame["state_outline"].rows)>>)
    /\ pc' = After(pc)
    /\ UNCHANGED <<args, disk, frame, raised, written, batch>>

\* --- 6) County Outline + CBRS table popups ---
CountyOutline ==
    /\ pc = "county_outline"
    /\ LET county_outline == frame["county_outline"]
           popups == [i \in 1..Len(county_outline) |->
                         [county_name |-> county_outline[i],
                          cbrs_info |-> Get(frame["cbrs_data"], county_outline[i])]]
       IN  m' = [AddTo(m, <<FeatureGroup("County Outline", TRUE, 1..Len(county_outline))>>)
                    EXCEPT !.popups = popups]
    /\ pc' = After(pc)
    /\ UNCHANGED <<args, disk, frame, raised, written, batch>>

\* the name and the default visibility of the Round 1 layer: the code names
\* it by what else is loaded and shows it in both cases
Round1Name(has_round2, has_cai) ==
    IF has_round2 \/ has_cai THEN "BEAD Eligible Locations Round 1"
    ELSE "BEAD Eligible Locations"

\* Round 1 hidden when another eligibility dataset is loaded
Round1ShowHidden(has_round2, has_cai) == IF has_round2 \/ has_cai THEN FALSE ELSE TRUE

Round1Show(has_round2, has_cai) == IF has_round2 \/ has_cai THEN TRUE ELSE TRUE

\* --- 7) BEAD Eligible Locations (Multiple layers) ---
BeadLocations ==
    /\ pc = "bead"
    /\ LET has_round2 == ~frame["bead_eligible_locations_round_2"].none
           has_cai == ~frame["bead_eligible_cai"].none
           round1_name == Round1Name(has_round2, has_cai)
           round1_show == Round1Show(has_round2, has_cai)
       IN  m' = AddTo(m,
                  add_bead_locations_layer(frame["bead_eligible_locations"],
                                           round1_name, round1_show)
                  \o (IF has_round2
                      THEN add_bead_locations_layer(frame["bead_eligible_locations_round_2"],
                                                    "BEAD Eligible Locations Round 2", FALSE)
                      ELSE <<>>)
                  \o (IF has_cai
                      THEN add_bead_locations_layer(frame["bead_eligible_cai"],
                                                    "BEAD Eligible CAIs", FALSE)
                      ELSE <<>>))
    /\ pc' = After(pc)
    /\ UNCHANGED <<args, disk, frame, raised, written, batch>>

\* --- 8) Add CCI Layers (Maine specific) ---
CciLayers ==
    /\ pc = "cci"
    /\ m' = IF Lower(args.state_name) = "maine"
                  /\ (Truthy(args.cci_ds_file) \/ Truthy(args.cci_fiber_file))
            THEN AddTo(m, add_cci_layers(args.cci_ds_file, args.cci_fiber_file))
            ELSE m
    /\ pc' = After(pc)
    /\ UNCHANGED <<args, disk, frame, raised, written, batch>>

\* --- 9) Grid Analysis layers (dissolved polygons) ---
GridLayers ==
    /\ pc = "grid"
    /\ m' = AddTo(m, grid_layers(frame["grid_analysis_layer"], 1))
    /\ pc' = After(pc)
    /\ UNCHANGED <<args, disk, frame, raised, written, batch>>

\* --- 10) Add WISP Layers ---
WispLayers ==
    /\ pc = "wisp"
    /\ \E draws \in [1..Len(Listing(frame["wisp_folder"])) -> DrawValues] :
          m' = AddTo(m, add_wisp_layers(frame["wisp_folder"], draws))
    /\ pc' = After(pc)
    /\ UNCHANGED <<args, disk, frame, raised, written, batch>>

\* "Other" taken as every row that is not of the first company
TowersOrOther(antenna_data, grouped_entity) ==
    {i \in 1..Len(antenna_data) :
        \/ antenna_data[i].grouped_entity = grouped_entity
        \/ grouped_entity = "Other" /\ antenna_data[i].grouped_entity # "American Towers"}

\* the rows of the infrastructure file whose grouped_entity is the category
Towers(antenna_data, grouped_entity) ==
    {i \in 1..Len(antenna_data) : antenna_data[i].grouped_entity = grouped_entity}

\* math.cos(math.radians(lat)) as a fraction, for the latitudes of the model
cos_radians(lat) ==
    CASE lat = 0 -> [num |-> 1, den |-> 1]
      [] lat \in {60, -60} -> [num |-> 1, den |-> 2]

\* the degrees of a distance with no regard to the latitude
degrees_per_mile_flat(lat, miles) == [num |-> miles, den |-> 69]

\* degrees_per_mile: miles / (69.0 * cos(lat)), as a fraction
degrees_per_mile(lat, miles) ==
    [num |-> miles * cos_radians(lat).den, den |-> 69 * cos_radians(lat).num]

\* the fraction times 111000, to the nearest tenth of a metre, in tenths
RadiusTenths(degrees) == (2 * 10 * 111000 * degrees.num + degrees.den) \div (2 * degrees.den)

\* the loop of add_coverage_rings, for one of its two groups: a circle per
\* row, at the row's location, of the radius of the distance at its latitude
Circles(antenna_data, rows, miles) ==
    {[row |-> i, lat |-> antenna_data[i].lat,
      radius |-> RadiusTenths(degrees_per_mile(antenna_data[i].lat, miles))] : i \in rows}

\* the feature groups section 11 binds: four marker groups, two aggregate
\* coverage groups, and a 2 mile and a 5 mile ring group per category; a
\* marker and a ring pair per row of the category
AntennaGroups(antenna_data) ==
    LET other == Towers(antenna_data, "Other")
        american == Towers(antenna_data, "American Towers")
        sba == Towers(antenna_data, "SBA")
        crown == Towers(antenna_data, "Crown Castle")
    IN  [fg_antennas |-> FeatureGroup("Antenna Locations - Other", FALSE, other),
         fg_antennas_american_towers |->
             FeatureGroup("Antenna Locations - American Towers", FALSE, american),
         fg_antennas_sba_towers |->
             FeatureGroup("Antenna Locations - SBA Towers", FALSE, sba),
         fg_antennas_crown_castle |->
             FeatureGroup("Antenna Locations - Crown Castle Towers", FALSE, crown),
         fg_coverage2 |->
             FeatureGroup("Antenna Coverage (2 Miles)", FALSE,
                          Circles(antenna_data, 1..Len(antenna_data), 2)),
         fg_coverage5 |->
             FeatureGroup("Antenna Coverage (5 Miles)", FALSE,
                          Circles(antenna_data, 1..Len(antenna_data), 5)),
         fg_coverage2_other |-> FeatureGroup("Other - Coverage 2 Mile", FALSE, Circles(antenna_data, other, 2)),
         fg_coverage5_other |-> FeatureGroup("Other - Coverage 5 Mile", FALSE, Circles(antenna_data, other, 5)),
         fg_coverage2_american |->
             FeatureGroup("American Towers - Coverage 2 Mile", FALSE, Circles(antenna_data, american, 2)),
         fg_coverage5_american |->
             FeatureGroup("American Towers - Coverage 5 Mile", FALSE, Circles(antenna_data, american, 5)),
         fg_coverage2_sba |-> FeatureGroup("SBA Towers - Coverage 2 Mile", FALSE, Circles(antenna_data, sba, 2)),
         fg_coverage5_sba |-> FeatureGroup("SBA Towers - Coverage 5 Mile", FALSE, Circles(antenna_data, sba, 5)),
         fg_coverage2_crown |-> FeatureGroup("Crown Castle - Coverage 2 Mile", FALSE, Circles(antenna_data, crown, 2)),
         fg_coverage5_crown |-> FeatureGroup("Crown Castle - Coverage 5 Mile", FALSE, Circles(antenna_data, crown, 5))]

\* --- 11) Antenna Markers + Coverage --- only for a file that is given and exists
AntennaLayers ==
    /\ pc = "antenna"
    /\ frame' = IF Truthy(args.antenna_file) /\ Exists(args.antenna_file)
                THEN Bind(frame, AntennaGroups(disk.antenna))
                ELSE frame
    /\ pc' = After(pc)
    /\ UNCHANGED <<args, disk, m, raised, written, batch>>

\* the ring groups of the first category added before its marker group
AddOrderRingsFirst ==
    << "fg_coverage2_other", "fg_coverage5_other", "fg_antennas",
       "fg_antennas_american_towers", "fg_coverage2_american", "fg_coverage5_american",
       "fg_antennas_sba_towers", "fg_coverage2_sba", "fg_coverage5_sba",
       "fg_antennas_crown_castle", "fg_coverage2_crown", "fg_coverage5_crown" >>

\* the 5 mile group of the last category added before its 2 mile group
AddOrderFarFirst ==
    << "fg_antennas", "fg_coverage2_other", "fg_coverage5_other",
       "fg_antennas_american_towers", "fg_coverage2_american", "fg_coverage5_american",
       "fg_antennas_sba_towers", "fg_coverage2_sba", "fg_coverage5_sba",
       "fg_antennas_crown_castle", "fg_coverage5_crown", "fg_coverage2_crown" >>

\* the two aggregate coverage groups added to the map as well
AddOrderWithAggregates ==
    << "fg_antennas", "fg_coverage2_other", "fg_coverage5_other",
       "fg_antennas_american_towers", "fg_coverage2_american", "fg_coverage5_american",
       "fg_antennas_sba_towers", "fg_coverage2_sba", "fg_coverage5_sba",
       "fg_antennas_crown_castle", "fg_coverage2_crown", "fg_coverage5_crown",
       "fg_coverage2", "fg_coverage5" >>

\* the local names the code adds to the map, in the order it adds them
AddOrder ==
    << "fg_antennas", "fg_coverage2_other", "fg_coverage5_other",
       "fg_antennas_american_towers", "fg_coverage2_american", "fg_coverage5_american",
       "fg_antennas_sba_towers", "fg_coverage2_sba", "fg_coverage5_sba",
       "fg_antennas_crown_castle", "fg_coverage2_crown", "fg_coverage5_crown" >>

\* "Add these layers to the map": each name is read in turn, and reading a
\* local name that was never bound raises UnboundLocalError
AddLayers ==
    /\ pc = "add_layers"
    /\ LET unbound == {i \in 1..Len(AddOrder) : AddOrder[i] \notin DOMAIN frame}
           last == IF unbound = {} THEN Len(AddOrder)
                   ELSE (CHOOSE i \in unbound : \A j \in unbound : i <= j) - 1
       IN  /\ m' = AddTo(m, [i \in 1..last |-> frame[AddOrder[i]]])
           /\ IF unbound = {}
              THEN pc' = After(pc) /\ UNCHANGED raised
              ELSE Raise("UnboundLocalError")
    /\ UNCHANGED <<args, disk, frame, written, batch>>

\* --- 12) LayerControl etc. ---
LayerControl ==
    /\ pc = "layer_control"
    /\ m' = [m EXCEPT !.control = TRUE]
    /\ pc' = After(pc)
    /\ UNCHANGED <<args, disk, frame, raised, written, batch>>

\* a file name that is the same for every region
OutFileFixed(output_path, state_name) == <<output_path, "BEAD Map with FCC Towers.html">>

\* the file the map is saved to
OutFile(output_path, state_name) ==
    <<output_path, state_name \o " BEAD Map with FCC Towers.html">>

\* the content m.save writes: the rendered map, whole
Rendered(map) == [layers |-> map.layers, popups |-> map.popups, complete |-> TRUE]

\* os.makedirs(output_path) when it is not there, then m.save(out_file):
\* the file is created or its old content replaced
Save ==
    /\ pc = "save"
    /\ disk' = [disk EXCEPT !.dirs = @ \cup {frame["output_path"]},
                            !.html = (OutFile(frame["output_path"], args.state_name) :> Rendered(m)) @@ @]
    /\ written' = written \cup
           {[out_file |-> OutFile(frame["output_path"], args.state_name), layers |-> m.layers]}
    /\ pc' = After(pc)
    /\ UNCHANGED <<args, frame, m, raised, batch>>

Next ==
    \/ ResolvePaths
    \/ LoadData
    \/ CreateMap
    \/ StateOutline
    \/ CountyOutline
    \/ BeadLocations
    \/ CciLayers
    \/ GridLayers
    \/ WispLayers
    \/ AntennaLayers
    \/ AddLayers
    \/ LayerControl
    \/ Save

Spec == Init /\ [][Next]_vars

----------------------------------------------------------------------------
(* The region generated again *)

\* generate_map_for_state calls create_map_fcc_towers for the region once
\* more, after the call before has returned or raised: a new call starts with
\* no local variable bound and no map, on the files as they now are
Regenerate ==
    /\ pc \in {"done", "raised"}
    /\ pc' = Sections[1]
    /\ frame' = NoFrame
    /\ m' = NoMap
    /\ raised' = ""
    /\ UNCHANGED <<args, disk, written, batch>>

NextRegenerate ==
    \/ Next
    \/ Regenerate

\* the regions generated again: every input but the family of the density
\* grids, whose other members all carry the sample grid
InputsRegenerate ==
    InputsOptional \cup InputsWisp \cup InputsTowers \cup InputsOnePerCategory
        \cup InputsRequired \cup InputsNames \cup InputsCbrs

InitRegenerate == Start(InputsRegenerate)

SpecRegenerate == InitRegenerate /\ [][NextRegenerate]_vars

----------------------------------------------------------------------------
(* The extractor of the infrastructure file                                  *)
(* (FCCTowerExtractor, src/Organization/FCCTowerExtraction.py): it queries   *)
(* the towers of a region, groups them by owner and writes the region's      *)
(* infrastructure file                                                       *)

\* at most this many pieces in an entity name of the towers database
MaxTokens == 2

\* an entity value of a row: a string, or the NaN of a missing value
Str(chars) == [isna |-> FALSE, str |-> chars]
NaN == [isna |-> TRUE, str |-> <<>>]

american_patterns ==
    << <<"a", "m", "e", "r", "i", "c", "a", "n", " ", "t", "o", "w", "e", "r">>,
       <<"a", "m", "t">>,
       <<"a", "m", "e", "r", "i", "c", "a", "n", " ", "t", "o", "w", "e", "r", "s">> >>

sba_patterns ==
    << <<"s", "b", "a">>,
       <<"s", "b", "a", " ", "c", "o", "m", "m", "u", "n", "i", "c", "a", "t", "i", "o", "n", "s">>,
       <<"s", "b", "a", " ", "c", "o", "m", "m">> >>

crown_patterns ==
    << <<"c", "r", "o", "w", "n", " ", "c", "a", "s", "t", "l", "e">>,
       <<"c", "r", "o", "w", "n">>,
       <<"c", "c", "i", "c">> >>

\* a classifier that compares the name as it is written
categorize_entity_cased(entity_name) ==
    IF entity_name.isna THEN "Other"
    ELSE IF \E k \in 1..Len(american_patterns) : str_in(american_patterns[k], entity_name.str)
         THEN "American Towers"
    ELSE IF \E k \in 1..Len(sba_patterns) : str_in(sba_patterns[k], entity_name.str)
         THEN "SBA"
    ELSE IF \E k \in 1..Len(crown_patterns) : str_in(crown_patterns[k], entity_name.str)
         THEN "Crown Castle"
    ELSE "Other"

\* a classifier that tries the Crown Castle patterns first
categorize_entity_crown_first(entity_name) ==
    IF entity_name.isna THEN "Other"
    ELSE LET entity_lower == str_lower(entity_name.str)
         IN  IF \E k \in 1..Len(crown_patterns) : str_in(crown_patterns[k], entity_lower)
             THEN "Crown Castle"
             ELSE IF \E k \in 1..Len(american_patterns) : str_in(american_patterns[k], entity_lower)
             THEN "American Towers"
             ELSE IF \E k \in 1..Len(sba_patterns) : str_in(sba_patterns[k], entity_lower)
             THEN "SBA"
             ELSE "Other"

\* categorize_entity: "Other" for a missing value, else the first of American
\* Towers, SBA, Crown Castle with a pattern that is a substring of the
\* lower-case name, else "Other"
categorize_entity(entity_name) ==
    IF entity_name.isna THEN "Other"
    ELSE LET entity_lower == str_lower(entity_name.str)
         IN  IF \E k \in 1..Len(american_patterns) : str_in(american_patterns[k], entity_lower)
             THEN "American Towers"
             ELSE IF \E k \in 1..Len(sba_patterns) : str_in(sba_patterns[k], entity_lower)
             THEN "SBA"
             ELSE IF \E k \in 1..Len(crown_patterns) : str_in(crown_patterns[k], entity_lower)
             THEN "Crown Castle"
             ELSE "Other"

\* add_tower_ownership_grouping: the frame with a grouped_entity column,
\* computed from the entity column when the frame has one
add_tower_ownership_grouping(df) ==
    [has_entity |-> df.has_entity,
     has_grouped_entity |-> TRUE,
     rows |-> [i \in 1..Len(df.rows) |->
                  [entity |-> df.rows[i].entity, lat |-> df.rows[i].lat,
                   grouped_entity |-> IF df.has_entity
                                      THEN categorize_entity(df.rows[i].entity)
                                      ELSE "Other"]]]

\* the pieces the entity names of the model are made of
Tokens ==
    { <<"C", "r", "o", "w", "n", " ", "C", "a", "s", "t", "l", "e">>,
      <<"C", "R", "O", "W", "N", " ", "C", "A", "S", "T", "L", "E">>,
      <<"c", "r", "o", "w", "n">>,
      <<"C", "C", "I", "C">>,
      <<"A", "m", "e", "r", "i", "c", "a", "n", " ", "T", "o", "w", "e", "r">>,
      <<"A", "M", "T">>,
      <<"S", "B", "A", " ">>,
      <<"V", "e", "r", "i", "z", "o", "n">>,
      <<" ">> }

RECURSIVE Phrases(_)
\* the strings made of at most n pieces
Phrases(n) ==
    IF n = 0 THEN {<<>>}
    ELSE LET shorter == Phrases(n - 1)
         IN  shorter \cup {p \o t : p \in shorter, t \in Tokens}

\* the entity values of the model: every string of pieces, and a missing value
EntityValues == {Str(p) : p \in Phrases(MaxTokens)} \cup {NaN}

\* a query result with several rows
SampleRows ==
    << [entity |-> Str(<<"S", "B", "A", " ", "T", "o", "w", "e", "r", "s", " ", "I", "I", " ", "L", "L", "C">>), lat |-> 0],
       [entity |-> NaN, lat |-> 60],
       [entity |-> Str(<<"C", "r", "o", "w", "n", " ", "C", "a", "s", "t", "l", "e", " ", "U", "S", "A">>), lat |-> -60] >>

\* the query results of the model: every one-row result and one of several
\* rows, from a table with and without an entity column, and an empty one
QueryResults ==
    {[has_entity |-> h, rows |-> r] :
        h \in BOOLEAN,
        r \in {<<[entity |-> e, lat |-> 0]>> : e \in EntityValues} \cup {SampleRows, <<>>}}

InitExtract ==
    /\ \E s \in StateNames, q \in QueryResults :
          /\ args = [BaseArgs EXCEPT !.state_name = s]
          /\ disk = [BaseDisk EXCEPT !.db = q]
    /\ pc = "query"
    /\ frame = NoFrame
    /\ m = NoMap
    /\ raised = ""
    /\ written = {}
    /\ batch = NoBatch

\* extract_fcc_data_for_state up to the query: False for a name that is no
\* key of state_name_to_abbr and for an empty result
ExtractQuery ==
    /\ pc = "query"
    /\ IF args.state_name \notin DOMAIN STATE_NAME_TO_ABBR \/ disk.db.rows = <<>>
       THEN pc' = "extract_failed" /\ UNCHANGED frame
       ELSE /\ frame' = Bind(frame, [state_abbr |-> STATE_NAME_TO_ABBR[args.state_name],
                                     df |-> disk.db])
            /\ pc' = "group"
    /\ UNCHANGED <<args, disk, m, raised, written, batch>>

\* df = self.add_tower_ownership_grouping(df)
ExtractGroup ==
    /\ pc = "group"
    /\ frame' = Bind(frame, [df |-> add_tower_ownership_grouping(frame["df"])])
    /\ pc' = "to_file"
    /\ UNCHANGED <<args, disk, m, raised, written, batch>>

\* df.to_file(output_file): the region's infrastructure file, with the
\* columns the map generator reads
ExtractSave ==
    /\ pc = "to_file"
    /\ disk' = [disk EXCEPT !.files = @ \cup {AntennaPath},
                            !.antenna = [i \in 1..Len(frame["df"].rows) |->
                                            [grouped_entity |-> frame["df"].rows[i].grouped_entity,
                                             lat |-> frame["df"].rows[i].lat]]]
    /\ pc' = "extracted"
    /\ UNCHANGED <<args, frame, m, raised, written, batch>>

NextExtract ==
    \/ ExtractQuery
    \/ ExtractGroup
    \/ ExtractSave

SpecExtract == InitExtract /\ [][NextExtract]_vars

----------------------------------------------------------------------------
(* The batch generator (BatchMapGenerator, src/Generators/BatchGenerator.py): *)
(* generate_all_maps runs generate_map_for_state, and with it                 *)
(* create_map_fcc_towers, on each region of a list, one after the other       *)

\* at most this many regions in a list and subdirectories in a data folder
MaxRegions == 3

\* the characters of the region names of the model
RegionChars(name) ==
    CASE name = "Maine" -> <<"M", "a", "i", "n", "e">>
      [] name = "maine" -> <<"m", "a", "i", "n", "e">>
      [] name = "Texas" -> <<"T", "e", "x", "a", "s">>
      [] name = "Atlantis" -> <<"A", "t", "l", "a", "n", "t", "i", "s">>

\* ord(c): the code point of a letter, and of the blank
ord(c) ==
    IF \E k \in 1..Len(UpperCase) : UpperCase[k] = c
    THEN 64 + CHOOSE k \in 1..Len(UpperCase) : UpperCase[k] = c
    ELSE IF \E k \in 1..Len(LowerCase) : LowerCase[k] = c
         THEN 96 + CHOOSE k \in 1..Len(LowerCase) : LowerCase[k] = c
    ELSE 32

\* a < b on str: by the code points at the first difference, a proper prefix first
str_lt(a, b) ==
    \E i \in 1..Len(b) :
        /\ i <= Len(a) + 1
        /\ SubSeq(a, 1, i - 1) = SubSeq(b, 1, i - 1)
        /\ i = Len(a) + 1 \/ ord(a[i]) < ord(b[i])

RECURSIVE sorted(_)
\* sorted(names): the names in ascending order
sorted(names) ==
    IF names = {} THEN <<>>
    ELSE LET least == CHOOSE x \in names :
                          \A y \in names \ {x} : str_lt(RegionChars(x), RegionChars(y))
         IN  <<least>> \o sorted(names \ {least})

\* a file of a region folder that is named after another region
ForeignOutline == "Vermont State Outline.sqlite"

\* the data folder is a record: whether it exists, the names of its
\* subdirectories and of its plain files, and the content of each subdirectory

\* a region folder that has any of the required files
get_state_folders_any(data) ==
    IF ~data.exists THEN <<>>
    ELSE sorted({item \in data.subdirs : RequiredFiles \cap data.folders[item].files # {}})

\* get_state_folders: the subdirectories of the data folder that hold all
\* four required files, each named after the subdirectory, sorted by name
get_state_folders(data) ==
    IF ~data.exists THEN <<>>
    ELSE sorted({item \in data.subdirs \cup data.plain :
                    /\ item \in data.subdirs
                    /\ RequiredFiles \subseteq data.folders[item].files})

\* the other names find_antenna_file looks for, in its order
AntennaVariations == <<"Antenna Structures.sqlite", "Towers.sqlite", "FCC Towers.sqlite">>

\* a .sqlite file with "tower" in its lower-case name, of none of the names above
KeywordFile == "Cell Towers 2020.sqlite"

AntennaFiles == {AntennaPath, KeywordFile} \cup Range(AntennaVariations)

\* find_antenna_file: the standard name, else the first variation there is,
\* else a .sqlite file with a keyword in its name, else None
find_antenna_file(files) ==
    IF AntennaPath \in files THEN AntennaPath
    ELSE IF \E k \in 1..Len(AntennaVariations) : AntennaVariations[k] \in files
         THEN AntennaVariations[CHOOSE k \in 1..Len(AntennaVariations) :
                                   /\ AntennaVariations[k] \in files
                                   /\ \A j \in 1..(k - 1) : AntennaVariations[j] \notin files]
    ELSE IF KeywordFile \in files THEN KeywordFile
    ELSE NoPath

\* find_additional_bead_files and find_cci_files: the path of a file that is
\* there, None otherwise; the CCI files only for Maine
find_file(files, path) == IF path \in files THEN path ELSE NoPath

\* the arguments generate_map_for_state passes to create_map_fcc_towers
MapArgs(state_name, files, nationwide_cbrs_file) ==
    [state_name |-> state_name,
     antenna_file |-> find_antenna_file(files),
     wisp_folder |-> NoPath,
     cbrs_file |-> nationwide_cbrs_file,
     round2_locations_file |-> find_file(files, Round2Path),
     cai_locations_file |-> find_file(files, CaiPath),
     cci_ds_file |-> IF Lower(state_name) # "maine" THEN NoPath ELSE find_file(files, CciDsPath),
     cci_fiber_file |-> IF Lower(state_name) # "maine" THEN NoPath
                        ELSE find_file(files, CciFiberPath)]

\* a line the batch prints
Line(kind, state_name, value, text) ==
    [line |-> kind, state_name |-> state_name, value |-> value, text |-> text]

\* the summary of generate_all_maps: the lines it prints, in order, and the
\* exception that ends it; total_time / (successful + failed) raises
\* ZeroDivisionError when no region was counted
summary(successful, failed) ==
    [printed |-> << Line("successful", "", successful, ""), Line("failed", "", failed, ""),
                    Line("total_processed", "", successful + failed, ""),
                    Line("total_time", "", 0, "") >>
                 \o (IF successful + failed = 0 THEN <<>> ELSE <<Line("average", "", 0, "")>>),
     raised |-> IF successful + failed = 0 THEN "ZeroDivisionError" ELSE ""]

\* what generate_map_for_state returns from its except clause
ReturnOnExceptionTrue == TRUE
ReturnOnException == FALSE

\* the loop after an exception of a region: it goes on (no break)
AfterExceptionBreak == "summary"
AfterException == "loop"

\* the loop after a KeyboardInterrupt: break
AfterInterruptContinue == "loop"
AfterInterrupt == "summary"

\* the region the loop is at
Region == batch.state_folders[batch.i]

\* generate_all_maps up to the loop: the list given or the folders found;
\* it returns at once when the list is empty
StartBatch ==
    /\ batch.pc = "start"
    /\ LET state_folders == IF batch.state_list.none THEN get_state_folders(batch.data)
                            ELSE batch.state_list.names
       IN  batch' = IF state_folders = <<>>
                    THEN [batch EXCEPT !.state_folders = state_folders,
                                       !.printed = @ \o <<Line("no_folders", "", 0, "")>>,
                                       !.pc = "returned"]
                    ELSE [batch EXCEPT !.state_folders = state_folders, !.pc = "loop"]
    /\ UNCHANGED <<args, disk, pc, frame, m, raised, written>>

\* the for statement takes the next region, and generate_map_for_state builds
\* the paths and calls create_map_fcc_towers on the region's folder; after the
\* last region the loop ends
NextRegion ==
    /\ batch.pc = "loop"
    /\ IF batch.i < Len(batch.state_folders)
       THEN LET state_name == batch.state_folders[batch.i + 1]
                folder == batch.data.folders[state_name]
            IN  /\ batch' = [batch EXCEPT !.i = @ + 1, !.pc = "region",
                                !.printed = @ \o <<Line("heading", state_name, batch.i + 1, "")>>]
                /\ args' = MapArgs(state_name, folder.files, batch.nationwide_cbrs_file)
                /\ disk' = folder
                /\ pc' = Sections[1]
                /\ frame' = NoFrame
                /\ m' = NoMap
                /\ raised' = ""
       ELSE /\ batch' = [batch EXCEPT !.pc = "summary"]
            /\ UNCHANGED <<args, disk, pc, frame, m, raised>>
    /\ UNCHANGED written

\* a KeyboardInterrupt arrives while the region is processed: in a section of
\* create_map_fcc_towers, or after it has returned
Interrupt ==
    /\ batch.pc = "region"
    /\ pc \in Range(Sections) \cup {"done"}
    /\ Raise("KeyboardInterrupt")
    /\ UNCHANGED <<args, disk, frame, m, written, batch>>

\* what is left of a file whose writing was cut short: the first k layers
Partial(map, k) == [layers |-> SubSeq(map.layers, 1, k), popups |-> <<>>, complete |-> FALSE]

\* m.save(out_file) does not come to its end: an error of the file system or
\* a KeyboardInterrupt while the file, opened for writing at its place, is
\* being written
SaveFails ==
    /\ batch.pc = "region"
    /\ pc = "save"
    /\ \E exception \in {"OSError", "KeyboardInterrupt"}, k \in {0, Len(m.layers) - 1} :
          /\ disk' = [disk EXCEPT !.dirs = @ \cup {frame["output_path"]},
                                  !.html = (OutFile(frame["output_path"], args.state_name)
                                               :> Partial(m, k)) @@ @]
          /\ Raise(exception)
    /\ UNCHANGED <<args, frame, m, written, batch>>

\* the region's folder as the call leaves it
Leave(b) == [b EXCEPT !.data.folders[Region] = disk]

\* create_map_fcc_towers returns: generate_map_for_state returns True and the
\* loop counts a success
RegionReturns ==
    /\ batch.pc = "region"
    /\ pc = "done"
    /\ batch' = [Leave(batch) EXCEPT !.successful = @ + 1, !.pc = "loop",
                     !.printed = @ \o <<Line("completed", Region, 0, "")>>]
    /\ pc' = "idle"
    /\ UNCHANGED <<args, disk, frame, m, raised, written>>

\* create_map_fcc_towers raises an Exception: generate_map_for_state prints
\* the region and the error and returns False, and the loop counts a failure
RegionFails ==
    /\ batch.pc = "region"
    /\ pc = "raised"
    /\ raised # "KeyboardInterrupt"
    /\ batch' = [Leave(batch) EXCEPT
                     !.successful = IF ReturnOnException THEN @ + 1 ELSE @,
                     !.failed = IF ReturnOnException THEN @ ELSE @ + 1,
                     !.pc = AfterException,
                     !.printed = @ \o <<Line("error", Region, 0, raised)>>]
    /\ pc' = "idle"
    /\ UNCHANGED <<args, disk, frame, m, raised, written>>

\* a KeyboardInterrupt is no Exception: it passes generate_map_for_state and
\* the loop breaks, counting nothing for the region
Cancelled ==
    /\ batch.pc = "region"
    /\ pc = "raised"
    /\ raised = "KeyboardInterrupt"
    /\ batch' = [Leave(batch) EXCEPT !.pc = AfterInterrupt,
                     !.printed = @ \o <<Line("interrupted", "", 0, "")>>]
    /\ pc' = "idle"
    /\ UNCHANGED <<args, disk, frame, m, raised, written>>

\* the summary after the loop
Summary ==
    /\ batch.pc = "summary"
    /\ LET result == summary(batch.successful, batch.failed)
       IN  batch' = [batch EXCEPT !.printed = @ \o result.printed,
                                  !.raised = result.raised,
                                  !.pc = IF result.raised = "" THEN "returned" ELSE "raised"]
    /\ UNCHANGED <<args, disk, pc, frame, m, raised, written>>

NextBatch ==
    \/ StartBatch
    \/ NextRegion
    \/ Next
    \/ Interrupt
    \/ SaveFails
    \/ RegionReturns
    \/ RegionFails
    \/ Cancelled
    \/ Summary

\* the folder of a region with the files
RegionFolder(files) ==
    [BaseDisk EXCEPT !.files = files,
                     !.antenna = IF files \cap AntennaFiles = {} THEN <<>> ELSE SampleTowers,
                     !.round2 = IF Round2Path \in files THEN MaxPoints ELSE 0,
                     !.cai = IF CaiPath \in files THEN MaxPoints ELSE 0,
                     !.cci_ds = IF CciDsPath \in files THEN MaxPoints ELSE 0,
                     !.cci_fiber = IF CciFiberPath \in files THEN MaxPoints ELSE 0]

\* the region folders of the model: all required files with an infrastructure
\* file, the required files alone, one required file missing, and the state
\* outline named after another region
FolderKinds ==
    {RegionFolder(RequiredFiles \cup {AntennaPath, CbrsPath}),
     RegionFolder(RequiredFiles \cup {CbrsPath}),
     RegionFolder((RequiredFiles \ {"State Outline.sqlite"}) \cup {AntennaPath, CbrsPath, ForeignOutline})}
    \cup {RegionFolder((RequiredFiles \ {file}) \cup {AntennaPath, CbrsPath}) : file \in RequiredFiles}

\* the regions of the data folders that are searched
FolderNames == {"Maine", "Texas", "maine"}

\* a batch before generate_all_maps is called
NewBatch(data, state_list) ==
    [pc |-> "start", data |-> data, nationwide_cbrs_file |-> CbrsPath,
     state_list |-> state_list, state_folders |-> <<>>, i |-> 0,
     successful |-> 0, failed |-> 0, printed |-> <<>>, raised |-> ""]

\* generate_all_maps() on every data folder of at most MaxRegions
\* subdirectories, with the license table as a plain file beside them, and on
\* a data folder that is not there
BatchesFound ==
    {NewBatch([exists |-> TRUE, subdirs |-> DOMAIN folders, plain |-> {CbrsPath},
               folders |-> [name \in StateNames |->
                               IF name \in DOMAIN folders THEN folders[name]
                               ELSE RegionFolder({})]],
              [none |-> TRUE, names |-> <<>>]) :
        folders \in UNION {[names -> FolderKinds] :
                              names \in {n \in SUBSET FolderNames : Cardinality(n) <= MaxRegions}}}
    \cup {NewBatch([exists |-> FALSE, subdirs |-> {}, plain |-> {},
                    folders |-> [name \in StateNames |-> RegionFolder({})]],
                   [none |-> TRUE, names |-> <<>>])}

\* a data folder of complete regions: Maine with every optional file, Texas
\* and Atlantis with the same files, and "maine" with infrastructure files
\* of other names
SampleData ==
    [exists |-> TRUE, subdirs |-> StateNames, plain |-> {CbrsPath},
     folders |-> [name \in StateNames |->
         CASE name = "Maine" ->
                  RegionFolder(RequiredFiles \cup {AntennaPath, CbrsPath, Round2Path, CaiPath,
                                                   CciDsPath, CciFiberPath})
           [] name \in {"Texas", "Atlantis"} ->
                  RegionFolder(RequiredFiles \cup {AntennaPath, CbrsPath})
           [] name = "maine" ->
                  RegionFolder(RequiredFiles \cup {CbrsPath, "Towers.sqlite", KeywordFile})]]

\* a data folder with Maine short of its grid file, no folder for Texas, an
\* infrastructure file of another name in Atlantis, and "maine" with the
\* required files alone
SampleDataShort ==
    [exists |-> TRUE, subdirs |-> StateNames \ {"Texas"}, plain |-> {CbrsPath},
     folders |-> [name \in StateNames |->
         CASE name = "Maine" ->
                  RegionFolder((RequiredFiles \ {"BEAD Grid Analysis Layer.sqlite"})
                                   \cup {AntennaPath, CbrsPath})
           [] name = "Texas" -> RegionFolder({})
           [] name = "Atlantis" -> RegionFolder(RequiredFiles \cup {CbrsPath, KeywordFile})
           [] name = "maine" -> RegionFolder(RequiredFiles \cup {CbrsPath})]]

\* generate_all_maps(state_list) on every list of at most MaxRegions regions,
\* a region named twice among them
BatchesListed ==
    {NewBatch(data, [none |-> FALSE, names |-> names]) :
        data \in {SampleData, SampleDataShort}, names \in SeqsUpTo(StateNames, MaxRegions)}

InitBatch ==
    /\ batch \in BatchesFound \cup BatchesListed
    /\ args = BaseArgs
    /\ disk = BaseDisk
    /\ pc = "idle"
    /\ frame = NoFrame
    /\ m = NoMap
    /\ raised = ""
    /\ written = {}

SpecBatch == InitBatch /\ [][NextBatch]_vars

----------------------------------------------------------------------------
(* BEADFileOrganizer: the files of a folder report put into one folder per state *)

\* a path is the sequence of its parts; pathlib's parent and name
Parent(path) == SubSeq(path, 1, Len(path) - 1)

Name(path) == path[Len(path)]

\* the path is the folder or lies under it
IsUnder(path, folder) == Len(path) >= Len(folder) /\ SubSeq(path, 1, Len(folder)) = folder

\* the path under the folder, taken to the same place under the target
Rebase(path, folder, target) == target \o SubSeq(path, Len(folder) + 1, Len(path))

\* the file system is a function from the paths that exist to their kind and
\* modification time
exists(fs, path) == path \in DOMAIN fs

is_dir(fs, path) == exists(fs, path) /\ fs[path].kind = "dir"

is_file(fs, path) == exists(fs, path) /\ fs[path].kind = "file"

\* os.path.getmtime(x) if os.path.exists(x) else 0
getmtime(fs, path) == IF exists(fs, path) THEN fs[path].mtime ELSE 0

\* the modification time of what organize_files creates: later than every source
Now == 3

\* Path.mkdir(parents=True, exist_ok=True)
mkdir(fs, path) ==
    LET made == {SubSeq(path, 1, k) : k \in 1..Len(path)} \ DOMAIN fs
    IN  [q \in DOMAIN fs \cup made |->
            IF q \in made THEN [kind |-> "dir", mtime |-> Now] ELSE fs[q]]

\* shutil.copy2: the file with its modification time; an exception, which
\* organize_files prints, when the source is no file
copy2(fs, source, target) ==
    IF ~is_file(fs, source) THEN fs
    ELSE LET dst == IF is_dir(fs, target) THEN target \o <<Name(source)>> ELSE target
         IN  [q \in DOMAIN fs \cup {dst} |-> IF q = dst THEN fs[source] ELSE fs[q]]

\* shutil.rmtree
rmtree(fs, folder) == [q \in {p \in DOMAIN fs : ~IsUnder(p, folder)} |-> fs[q]]

\* shutil.copytree: the folder with all that lies under it; an exception
\* when the source is no folder or the target exists
copytree(fs, source, target) ==
    IF ~is_dir(fs, source) \/ exists(fs, target) THEN fs
    ELSE LET under == {p \in DOMAIN fs : IsUnder(p, source)}
             copies == {Rebase(p, source, target) : p \in under}
         IN  [q \in DOMAIN fs \cup copies |->
                 IF q \in copies
                 THEN fs[CHOOSE p \in under : Rebase(p, source, target) = q]
                 ELSE fs[q]]

\* shutil.move: into the target when that is a folder, else a rename of the
\* file or of the folder with all that lies under it; an exception when the
\* source does not exist
move(fs, source, target) ==
    IF ~exists(fs, source) THEN fs
    ELSE LET dst == IF is_dir(fs, target) THEN target \o <<Name(source)>> ELSE target
             under == {p \in DOMAIN fs : IsUnder(p, source)}
             moved == {Rebase(p, source, dst) : p \in under}
         IN  IF dst = source \/ (is_dir(fs, target) /\ exists(fs, dst)) THEN fs
             ELSE [q \in (DOMAIN fs \ under) \cup moved |->
                     IF q \in moved
                     THEN fs[CHOOSE p \in under : Rebase(p, source, dst) = q]
                     ELSE fs[q]]

\* the characters of the folder names the organizer looks inside
NameChars(name) ==
    CASE name = "New Jersey WISPs Dissolved" ->
             <<"N", "e", "w", " ", "J", "e", "r", "s", "e", "y", " ", "W", "I", "S", "P", "s", " ", "D", "i", "s", "s", "o", "l", "v", "e", "d">>
      [] name = "New Jersey WISPs Hex Dissolved" ->
             <<"N", "e", "w", " ", "J", "e", "r", "s", "e", "y", " ", "W", "I", "S", "P", "s", " ", "H", "e", "x", " ", "D", "i", "s", "s", "o", "l", "v", "e", "d">>
      [] name = "New York WISPs Dissolved" ->
             <<"N", "e", "w", " ", "Y", "o", "r", "k", " ", "W", "I", "S", "P", "s", " ", "D", "i", "s", "s", "o", "l", "v", "e", "d">>
      [] name = "New York WISPs Hex Dissolved" ->
             <<"N", "e", "w", " ", "Y", "o", "r", "k", " ", "W", "I", "S", "P", "s", " ", "H", "e", "x", " ", "D", "i", "s", "s", "o", "l", "v", "e", "d">>
      [] name = "Maine WISPs Dissolved" ->
             <<"M", "a", "i", "n", "e", " ", "W", "I", "S", "P", "s", " ", "D", "i", "s", "s", "o", "l", "v", "e", "d">>
      [] name = "Maine WISPs Hex Dissolved" ->
             <<"M", "a", "i", "n", "e", " ", "W", "I", "S", "P", "s", " ", "H", "e", "x", " ", "D", "i", "s", "s", "o", "l", "v", "e", "d">>
      [] name = "old" ->
             <<"o", "l", "d">>
      [] name = "WISPs" ->
             <<"W", "I", "S", "P", "s">>

\* str.split()[0]: the characters before the first blank
first_word(s) ==
    IF \E k \in 1..Len(s) : s[k] = " "
    THEN SubSeq(s, 1, (CHOOSE k \in 1..Len(s) : s[k] = " " /\ \A j \in 1..(k - 1) : s[j] # " ") - 1)
    ELSE s

\* no folder found: the None of _find_wisp_folder
NoFolder == <<>>

\* _find_wisp_folder: the path itself when it is a folder of the expected
\* name, else the folder of that name next to it, else any folder next to it
\* whose name holds "WISPs" and the first word of the expected name; the
\* folders iterdir may give first are all possible results
find_wisp_folder(fs, file_path, expected_folder_name) ==
    IF is_dir(fs, file_path) /\ Name(file_path) = expected_folder_name THEN {file_path}
    ELSE LET parent_dir == Parent(file_path)
             expected_folder == parent_dir \o <<expected_folder_name>>
             items == {item \in DOMAIN fs :
                          /\ Len(item) > 0 /\ Parent(item) = parent_dir
                          /\ is_dir(fs, item)
                          /\ str_in(NameChars("WISPs"), NameChars(Name(item)))
                          /\ str_in(first_word(NameChars(expected_folder_name)),
                                    NameChars(Name(item)))}
         IN  IF is_dir(fs, expected_folder) THEN {expected_folder}
             ELSE IF items # {} THEN items
             ELSE {NoFolder}

\* the categories of file_groups that are dictionaries, by what they hold
SingleFileCategories == {"state_outlines", "county_outlines", "cbrs_files"}

WispCategories == {"wisps_hex", "wisps_regular"}

MultiFileCategories == {"bead_eligible", "grid_analysis", "antenna_files"}

required_categories == {"state_outlines", "county_outlines", "bead_eligible", "grid_analysis"}

\* max(files, key=getmtime): the first of the latest
latest(fs, files) ==
    files[CHOOSE i \in 1..Len(files) :
             /\ \A j \in 1..Len(files) : getmtime(fs, files[j]) <= getmtime(fs, files[i])
             /\ \A j \in 1..(i - 1) : getmtime(fs, files[j]) < getmtime(fs, files[i])]

\* get_latest_files: for every state of file_groups, in the order the set of
\* states is iterated in, the one path of each category it has; with
\* complete_only, only the states that have every required category
get_latest_files(fs, file_groups, all_states, complete_only) ==
    LET has(state, category) == state \in DOMAIN file_groups[category]
        kept(state) ==
            /\ state # "Unknown"
            /\ complete_only => \A category \in required_categories : has(state, category)
        files(state) ==
            [category \in {c \in SingleFileCategories : has(state, c)}
                              \cup {c \in WispCategories \cup MultiFileCategories :
                                       has(state, c) /\ file_groups[c][state] # <<>>} |->
                IF category \in SingleFileCategories THEN file_groups[category][state]
                ELSE latest(fs, file_groups[category][state])]
        keys == SelectSeq(all_states, kept)
    IN  [keys |-> keys, files |-> [state \in Range(keys) |-> files(state)]]

\* file_mapping: the categories handled as single files, in order, and the
\* name each file gets in the state's folder
file_mapping_order ==
    <<"state_outlines", "county_outlines", "bead_eligible", "grid_analysis", "cbrs_files">>

file_mapping(state, category) ==
    CASE category = "state_outlines" -> state \o " State Outline.sqlite"
      [] category = "county_outlines" -> state \o " County Outline.sqlite"
      [] category = "bead_eligible" -> state \o " BEAD Eligible Locations.sqlite"
      [] category = "grid_analysis" -> state \o " BEAD Grid Analysis Layer.sqlite"
      [] category = "cbrs_files" -> state \o " CBRS.xlsx"

\* an entry of the list organize_files returns
Action(op, source, target) == [op |-> op, source |-> source, target |-> target]

\* the file system and the list with the action appended and, unless
\* dry_run, the file copied or moved
transfer(st, dry_run, copy_instead_of_move, source, target) ==
    [fs |-> IF dry_run THEN st.fs
            ELSE IF copy_instead_of_move THEN copy2(st.fs, source, target)
            ELSE move(st.fs, source, target),
     actions |-> Append(st.actions,
                        Action(IF copy_instead_of_move THEN "COPY" ELSE "MOVE", source, target))]

\* "Handle single files": the categories of file_mapping from the k-th on
RECURSIVE handle_single_files(_, _, _, _, _, _, _)
handle_single_files(st, k, state_folder, state, files, dry_run, copy_instead_of_move) ==
    IF k > Len(file_mapping_order) THEN st
    ELSE LET category == file_mapping_order[k]
             next == IF category \notin DOMAIN files THEN st
                     ELSE transfer(st, dry_run, copy_instead_of_move, files[category],
                                   state_folder \o <<file_mapping(state, category)>>)
         IN  handle_single_files(next, k + 1, state_folder, state, files, dry_run,
                                 copy_instead_of_move)

\* the folder name and the words of the action for the two kinds of overlay folder
wisps_folder_name(state, category) ==
    IF category = "wisps_hex" THEN state \o " WISPs Hex Dissolved" ELSE state \o " WISPs Dissolved"

wisps_words(category) == IF category = "wisps_hex" THEN "WISPs Hex folder" ELSE "WISPs folder"

\* "Handle WISPs folders" for the folder found: copied or moved in place of
\* the target when it exists, else an empty target folder made
handle_wisps_folder(st, state_folder, state, category, source_wisps_folder, dry_run, copy_instead_of_move) ==
    LET target_wisps_folder == state_folder \o <<wisps_folder_name(state, category)>>
        cleared == IF exists(st.fs, target_wisps_folder) THEN rmtree(st.fs, target_wisps_folder)
                   ELSE st.fs
    IN  IF source_wisps_folder # NoFolder /\ exists(st.fs, source_wisps_folder)
        THEN [fs |-> IF dry_run THEN st.fs
                     ELSE IF copy_instead_of_move
                          THEN copytree(cleared, source_wisps_folder, target_wisps_folder)
                     ELSE move(cleared, source_wisps_folder, target_wisps_folder),
              actions |-> Append(st.actions,
                                 Action((IF copy_instead_of_move THEN "COPY " ELSE "MOVE ")
                                            \o wisps_words(category),
                                        source_wisps_folder, target_wisps_folder))]
        ELSE [fs |-> IF dry_run THEN st.fs ELSE mkdir(st.fs, target_wisps_folder),
              actions |-> Append(st.actions,
                                 Action("CREATE empty " \o wisps_words(category),
                                        NoFolder, target_wisps_folder))]

\* "Handle antenna files" and "Create Results folder"
handle_antenna_and_results(st, state_folder, state, files, dry_run, copy_instead_of_move) ==
    LET after == IF "antenna_files" \notin DOMAIN files THEN st
                 ELSE transfer(st, dry_run, copy_instead_of_move, files["antenna_files"],
                               state_folder \o <<state \o " FCC Antenna Structures.sqlite">>)
        results_folder == state_folder \o <<"Results">>
    IN  [fs |-> IF dry_run THEN after.fs ELSE mkdir(after.fs, results_folder),
         actions |-> Append(after.actions, Action("CREATE Results folder", NoFolder, results_folder))]

\* the body of the loop of organize_files for one state: the file systems
\* and action lists it can end with
organize_state(st, target_base_folder, state, files, dry_run, copy_instead_of_move) ==
    IF DOMAIN files = {} THEN {st}
    ELSE LET state_folder == target_base_folder \o <<state>>
             made == [st EXCEPT !.fs = IF dry_run THEN @ ELSE mkdir(@, state_folder)]
             singles == handle_single_files(made, 1, state_folder, state, files, dry_run,
                                            copy_instead_of_move)
             category == IF "wisps_hex" \in DOMAIN files THEN "wisps_hex"
                         ELSE IF "wisps_regular" \in DOMAIN files THEN "wisps_regular"
                         ELSE "none"
             with_wisps ==
                 IF category = "none" THEN {singles}
                 ELSE {handle_wisps_folder(singles, state_folder, state, category, found, dry_run,
                                           copy_instead_of_move) :
                          found \in find_wisp_folder(singles.fs, files[category],
                                                     wisps_folder_name(state, category))}
         IN  {handle_antenna_and_results(w, state_folder, state, files, dry_run,
                                         copy_instead_of_move) : w \in with_wisps}

\* where the report's files lie, and where the organized folders go
SourceDir == <<"src">>

TargetBase == <<"Data">>

\* the folder of a state's infrastructure file: the state is read off its number prefix
NumberedDir(state) == <<"fcc", "1- " \o state>>

\* what the report holds of a state: every required file or all but the grid
\* file, the overlay as a folder, a hex folder, a single file or not at all,
\* and the license table and infrastructure file or neither
Kits ==
    [complete : BOOLEAN, wisp : {"none", "dir", "hex", "file"}, optional : BOOLEAN]

Entry(path, kind, mtime) == [path |-> path, kind |-> kind, mtime |-> mtime]

\* the paths of the report for the state, by category; the eligible
\* locations in an old and a new version
state_outlines_path(state) == SourceDir \o <<file_mapping(state, "state_outlines")>>

county_outlines_path(state) == SourceDir \o <<file_mapping(state, "county_outlines")>>

bead_eligible_paths(state) ==
    << SourceDir \o <<"old", file_mapping(state, "bead_eligible")>>,
       SourceDir \o <<file_mapping(state, "bead_eligible")>> >>

grid_analysis_path(state) == SourceDir \o <<file_mapping(state, "grid_analysis")>>

cbrs_files_path(state) == SourceDir \o <<file_mapping(state, "cbrs_files")>>

antenna_files_path(state) == NumberedDir(state) \o <<state \o " FCC Antenna Structures.sqlite">>

wisps_path(state, wisp) ==
    CASE wisp = "dir" -> SourceDir \o <<state \o " WISPs Dissolved">>
      [] wisp = "hex" -> SourceDir \o <<state \o " WISPs Hex Dissolved">>
      [] wisp = "file" -> SourceDir \o <<state \o " WISPs Dissolved.zip">>

\* the files and folders of the states
SceneEntries(kits) ==
    {Entry(SourceDir, "dir", 1), Entry(SourceDir \o <<"old">>, "dir", 1), Entry(<<"fcc">>, "dir", 1)}
    \cup UNION {
        {Entry(state_outlines_path(s), "file", 1), Entry(county_outlines_path(s), "file", 1),
         Entry(bead_eligible_paths(s)[1], "file", 1), Entry(bead_eligible_paths(s)[2], "file", 2)}
        \cup (IF kits[s].complete THEN {Entry(grid_analysis_path(s), "file", 1)} ELSE {})
        \cup (IF kits[s].optional
              THEN {Entry(cbrs_files_path(s), "file", 1), Entry(NumberedDir(s), "dir", 1),
                    Entry(antenna_files_path(s), "file", 1)}
              ELSE {})
        \cup (CASE kits[s].wisp = "none" -> {}
                [] kits[s].wisp = "file" -> {Entry(wisps_path(s, "file"), "file", 1)}
                [] OTHER -> {Entry(wisps_path(s, kits[s].wisp), "dir", 1),
                             Entry(wisps_path(s, kits[s].wisp) \o <<"wisps.shp">>, "file", 1)})
        : s \in DOMAIN kits}

\* the file system of the entries
FileSystem(entries) ==
    [path \in {e.path : e \in entries} |->
        LET e == CHOOSE e \in entries : e.path = path
        IN  [kind |-> e.kind, mtime |-> e.mtime]]

\* file_groups as _load_and_categorize_files leaves it for a report that
\* lists every file and folder of the states
load_and_categorize_files(kits) ==
    LET states == DOMAIN kits
    IN  [state_outlines |-> [s \in states |-> state_outlines_path(s)],
         county_outlines |-> [s \in states |-> county_outlines_path(s)],
         bead_eligible |-> [s \in states |-> bead_eligible_paths(s)],
         grid_analysis |-> [s \in {s \in states : kits[s].complete} |-> <<grid_analysis_path(s)>>],
         wisps_hex |-> [s \in {s \in states : kits[s].wisp = "hex"} |-> <<wisps_path(s, "hex")>>],
         wisps_regular |-> [s \in {s \in states : kits[s].wisp \in {"dir", "file"}} |->
                               <<wisps_path(s, kits[s].wisp)>>],
         antenna_files |-> [s \in {s \in states : kits[s].optional} |-> <<antenna_files_path(s)>>],
         cbrs_files |-> [s \in {s \in states : kits[s].optional} |-> cbrs_files_path(s)]]

\* an organizer after construction, with the order its set of states is
\* iterated in, and the options organize_files is called with
Organizer(kits, all_states, copy_instead_of_move, complete_only) ==
    [args |-> [target_base_folder |-> TargetBase,
               file_groups |-> load_and_categorize_files(kits),
               all_states |-> all_states,
               copy_instead_of_move |-> copy_instead_of_move,
               complete_only |-> complete_only],
     disk |-> FileSystem(SceneEntries(kits))]

\* two states that share their first word, with every report of each
OrganizersSameFirstWord ==
    {Organizer(kits, order, c, o) :
        kits \in [{"New Jersey", "New York"} -> Kits],
        order \in {<<"New Jersey", "New York">>, <<"New York", "New Jersey">>},
        c \in BOOLEAN, o \in BOOLEAN}

\* two states that share no word: the overlay of one a folder, of the other a file
OrganizersOtherFirstWord ==
    {Organizer([s \in {"Maine", "New York"} |->
                   [complete |-> TRUE, optional |-> FALSE,
                    wisp |-> IF s = "Maine" THEN w ELSE "file"]], order, c, o) :
        w \in {"dir", "hex"},
        order \in {<<"Maine", "New York">>, <<"New York", "Maine">>},
        c \in BOOLEAN, o \in BOOLEAN}

InitOrganize ==
    /\ \E organizer \in OrganizersSameFirstWord \cup OrganizersOtherFirstWord :
          args = organizer.args /\ disk = organizer.disk
    /\ pc = "created"
    /\ frame = NoFrame
    /\ m = NoMap
    /\ raised = ""
    /\ written = {}
    /\ batch = NoBatch

\* organize_files is called, first with dry_run=True and then with
\* dry_run=False, as main does: up to the loop
OrganizeCall ==
    /\ pc = "created"
    /\ \E dry_run \in BOOLEAN :
          /\ dry_run <=> written = {}
          /\ \A call \in written : call.dry_run
          /\ frame' = Bind(NoFrame,
                [dry_run |-> dry_run,
                 before |-> disk,
                 latest_files |-> get_latest_files(disk, args.file_groups, args.all_states,
                                                   args.complete_only),
                 done |-> 0,
                 actions |-> <<>>])
    /\ pc' = "organize"
    /\ UNCHANGED <<args, disk, m, raised, written, batch>>

\* one pass of the loop over latest_files.items()
OrganizeState ==
    /\ pc = "organize"
    /\ frame["done"] < Len(frame["latest_files"].keys)
    /\ LET state == frame["latest_files"].keys[frame["done"] + 1]
       IN  \E st \in organize_state([fs |-> disk, actions |-> frame["actions"]],
                                    args.target_base_folder, state,
                                    frame["latest_files"].files[state], frame["dry_run"],
                                    args.copy_instead_of_move) :
               /\ disk' = st.fs
               /\ frame' = [frame EXCEPT !["done"] = @ + 1, !["actions"] = st.actions]
    /\ UNCHANGED <<args, pc, m, raised, written, batch>>

\* return actions
OrganizeReturn ==
    /\ pc = "organize"
    /\ frame["done"] = Len(frame["latest_files"].keys)
    /\ written' = written \cup {[dry_run |-> frame["dry_run"], actions |-> frame["actions"],
                                 before |-> frame["before"], after |-> disk]}
    /\ frame' = NoFrame
    /\ pc' = "created"
    /\ UNCHANGED <<args, disk, m, raised, batch>>

NextOrganize ==
    \/ OrganizeCall
    \/ OrganizeState
    \/ OrganizeReturn

SpecOrganize == InitOrganize /\ [][NextOrganize]_vars

----------------------------------------------------------------------------
(* The vocabulary of the claims: the layers by the names the map shows *)

BoundaryNames == {"State Outline", "County Outline"}

PrimaryNames == {"BEAD Eligible Locations", "BEAD Eligible Locations Round 1"}

SecondaryNames == {"BEAD Eligible Locations Round 2"}

AnchorNames == {"BEAD Eligible CAIs"}

EligibilityNames == PrimaryNames \cup SecondaryNames \cup AnchorNames

\* the density layers in ascending order of their count range
GridLayerNames ==
    << "Grid Layer (1-5 Locations)", "Grid Layer (5-10 Locations)",
       "Grid Layer (10-20 Locations)", "Grid Layer (20-30 Locations)",
       "Grid Layer (30-50 Locations)", "Grid Layer (50-75 Locations)",
       "Grid Layer (75-100 Locations)", "Grid Layer (100+ Locations)" >>

GridNames == Range(GridLayerNames)

\* the minimum of each specified bucket: [1,5) [5,10) ... [75,100) [100, oo)
BucketMinimums == <<1, 5, 10, 20, 30, 50, 75, 100>>

\* the specified bucketAssign, for a count of at least 1 (buckets counted from 1)
bucketAssign(count) ==
    CHOOSE k \in 1..Len(BucketMinimums) :
        /\ BucketMinimums[k] <= count
        /\ k < Len(BucketMinimums) => count < BucketMinimums[k + 1]

CciNames == {"CCI DSL", "CCI Fiber"}

WispNames == {WispLayerName(entry.stem) : entry \in WispEntries}

OverlayNames == CciNames \cup WispNames

Categories == <<"Other", "American Towers", "SBA", "Crown Castle">>

MarkerName ==
    [c \in Range(Categories) |->
        CASE c = "Other" -> "Antenna Locations - Other"
          [] c = "American Towers" -> "Antenna Locations - American Towers"
          [] c = "SBA" -> "Antenna Locations - SBA Towers"
          [] c = "Crown Castle" -> "Antenna Locations - Crown Castle Towers"]

NearName ==
    [c \in Range(Categories) |->
        CASE c = "Other" -> "Other - Coverage 2 Mile"
          [] c = "American Towers" -> "American Towers - Coverage 2 Mile"
          [] c = "SBA" -> "SBA Towers - Coverage 2 Mile"
          [] c = "Crown Castle" -> "Crown Castle - Coverage 2 Mile"]

FarName ==
    [c \in Range(Categories) |->
        CASE c = "Other" -> "Other - Coverage 5 Mile"
          [] c = "American Towers" -> "American Towers - Coverage 5 Mile"
          [] c = "SBA" -> "SBA Towers - Coverage 5 Mile"
          [] c = "Crown Castle" -> "Crown Castle - Coverage 5 Mile"]

MarkerNames == {MarkerName[c] : c \in Range(Categories)}

RingNames == {NearName[c] : c \in Range(Categories)} \cup {FarName[c] : c \in Range(Categories)}

LayerNames(layers) == [i \in 1..Len(layers) |-> layers[i].name]

\* the positions of the layers with a name of the set
Positions(layers, names) == {i \in 1..Len(layers) : layers[i].name \in names}

\* every layer named in first comes before every layer named in second
AllBefore(layers, first, second) ==
    \A i \in Positions(layers, first), j \in Positions(layers, second) : i < j

\* the run has ended, by returning or by an exception
Terminated == pc \in {"done", "raised"}

\* the grid section has run
GridBuilt ==
    /\ "grid_analysis_layer" \in DOMAIN frame
    /\ pc \notin {"basemap", "state_outline", "county_outline", "bead", "cci", "grid"}

\* the density layers of the map that hold grid cell i
LayersOfCell(i) ==
    {j \in Positions(m.layers, GridNames) : i \in m.layers[j].items}

\* the call passes no optional source and the region folder holds the four
\* required files and nothing else
RequiredOnly ==
    /\ args = [BaseArgs EXCEPT !.state_name = args.state_name]
    /\ disk.files = RequiredFiles
    /\ disk.dirs \cap WispFolders = {}

----------------------------------------------------------------------------
(* C1 *)

\* the specified layer list of a region with the four required datasets only
RequiredOnlyLayerNames ==
    <<"State Outline", "County Outline", "BEAD Eligible Locations">>
    \o SelectSeq(GridLayerNames,
                 LAMBDA name : \E i \in 1..Len(disk.grid) :
                     /\ disk.grid[i] >= 1
                     /\ GridLayerNames[bucketAssign(disk.grid[i])] = name)

\* C1: a region that supplies only the four required datasets is processed to
\* completion, and the layer list of its artifact is exactly the boundary
\* layer, the subdivision layer, the primary-eligibility layer and one layer
\* per non-empty density bucket (so no infrastructure or coverage layer).
C1_RequiredOnlyCompletes ==
    (RequiredOnly /\ Terminated) =>
        /\ pc = "done"
        /\ \E w \in written : LayerNames(w.layers) = RequiredOnlyLayerNames

----------------------------------------------------------------------------
(* C2 *)

OptionalSources == {"round2", "cai", "antenna", "overlay", "cbrs"}

Given(path) == Truthy(path) /\ path \in disk.files

\* the optional source is supplied
SourcePresent(source) ==
    CASE source = "round2" -> Given(args.round2_locations_file)
      [] source = "cai" -> Given(args.cai_locations_file)
      [] source = "antenna" -> Given(args.antenna_file)
      [] source = "cbrs" -> Given(args.cbrs_file)
      [] source = "overlay" ->
            /\ disk.dirs \cap WispFolders # {}
            /\ Given(args.cci_ds_file)
            /\ Given(args.cci_fiber_file)

\* the optional source is not supplied in any form
SourceAbsent(source) ==
    CASE source = "round2" -> ~Given(args.round2_locations_file)
      [] source = "cai" -> ~Given(args.cai_locations_file)
      [] source = "antenna" -> ~Given(args.antenna_file)
      [] source = "cbrs" -> ~Given(args.cbrs_file)
      [] source = "overlay" ->
            /\ disk.dirs \cap WispFolders = {}
            /\ ~Truthy(args.wisp_folder)
            /\ ~Given(args.cci_ds_file)
            /\ ~Given(args.cci_fiber_file)

\* the layers that depend on the optional source
DependentNames(source) ==
    CASE source = "round2" -> SecondaryNames
      [] source = "cai" -> AnchorNames
      [] source = "antenna" -> MarkerNames \cup RingNames
      [] source = "cbrs" -> {}
      [] source = "overlay" -> OverlayNames

\* the layers the run owes to a source that is supplied
OwedNames(source) ==
    CASE source = "round2" -> IF disk.round2 > 0 THEN SecondaryNames ELSE {}
      [] source = "cai" -> IF disk.cai > 0 THEN AnchorNames ELSE {}
      [] source = "antenna" -> MarkerNames \cup RingNames
      [] source = "cbrs" -> {}
      [] source = "overlay" ->
            WispNames \cup (IF Lower(args.state_name) = "maine" THEN CciNames ELSE {})

\* one optional source is absent; the required and the other optional ones are there
AbsentAlone(source) ==
    /\ RequiredFiles \subseteq disk.files
    /\ SourceAbsent(source)
    /\ \A other \in OptionalSources \ {source} : SourcePresent(other)

\* C2: for every optional source taken individually, when it is absent and
\* the four required sources are present, the run raises no error, writes the
\* artifact, and omits only the layers that depend on the absent source.
C2_AbsentOptionalDegrades ==
    \A source \in OptionalSources :
        (AbsentAlone(source) /\ Terminated) =>
            /\ pc = "done"
            /\ written # {}
            /\ \A w \in written :
                  /\ Range(LayerNames(w.layers)) \cap DependentNames(source) = {}
                  /\ \A other \in OptionalSources \ {source} :
                        OwedNames(other) \subseteq Range(LayerNames(w.layers))

----------------------------------------------------------------------------
(* C3 *)

\* C3: every cell whose point_count is at least 1 lies in exactly one density
\* layer, the layer of its specified bucket; the last bucket is unbounded
\* above, so a cell of any count from 100 on lies in the "100+" layer.
C3_EveryCountInOneBucket ==
    GridBuilt =>
        \A i \in 1..Len(disk.grid) :
            disk.grid[i] >= 1 =>
                /\ Cardinality(LayersOfCell(i)) = 1
                /\ \A j \in LayersOfCell(i) :
                      m.layers[j].name = GridLayerNames[bucketAssign(disk.grid[i])]

----------------------------------------------------------------------------
(* C4 *)

\* C4: the bucket ranges are contiguous (each maximum is the next minimum)
\* and do not overlap (no cell lies in two density layers), minimum inclusive
\* and maximum exclusive: a cell whose count is 1..100, the boundary counts
\* 5, 10, 20, 30, 50, 75 and 100 among them, lies in the layer of the bucket
\* that starts at or below it, so 1 and 4 are in bucket 0, 5 in bucket 1,
\* 99 in bucket 6 and 100 in bucket 7.
C4_BucketsContiguous ==
    /\ \A k \in 1..(Len(range_dict) - 1) :
          range_dict[k].range[2] = range_dict[k + 1].range[1]
    /\ GridBuilt =>
          \A i \in 1..Len(disk.grid) :
              /\ Cardinality(LayersOfCell(i)) <= 1
              /\ disk.grid[i] \in 1..100 =>
                    \E j \in LayersOfCell(i) :
                        m.layers[j].name = GridLayerNames[bucketAssign(disk.grid[i])]

\* a grid with a cell of count 4 and a cell of count 5 has been bucketed: the
\* first lies in the "1-5" layer and the second in the "5-10" layer
C4_Witness ==
    /\ GridBuilt
    /\ disk.grid = <<4, 5>>
    /\ \E j \in LayersOfCell(1) : m.layers[j].name = "Grid Layer (1-5 Locations)"
    /\ \E j \in LayersOfCell(2) : m.layers[j].name = "Grid Layer (5-10 Locations)"

----------------------------------------------------------------------------
(* C5 *)

\* the cells the grid loop assigns to bucket k
Assigned(k) ==
    {i \in 1..Len(disk.grid) :
        /\ disk.grid[i] >= range_dict[k].range[1]
        /\ disk.grid[i] < range_dict[k].range[2]}

----------------------------------------------------------------------------
(* C6 *)

\* C6 as claimed: in the layer list of every artifact, every overlay layer
\* (WISP and CCI) comes after every boundary, eligibility, density,
\* infrastructure marker and coverage-ring layer.
C6_OverlaysLast ==
    \A w \in written :
        AllBefore(w.layers,
                  BoundaryNames \cup EligibilityNames \cup GridNames
                      \cup MarkerNames \cup RingNames,
                  OverlayNames)

\* C6 as amended: in the layer list of every artifact, every WISP layer comes
\* after every boundary, eligibility and density layer and before every
\* infrastructure marker and coverage-ring layer, and every CCI layer comes
\* after every boundary and eligibility layer and before every density layer.
C6_OverlayPlacement ==
    \A w \in written :
        /\ AllBefore(w.layers, BoundaryNames \cup EligibilityNames \cup GridNames, WispNames)
        /\ AllBefore(w.layers, WispNames, MarkerNames \cup RingNames)
        /\ AllBefore(w.layers, BoundaryNames \cup EligibilityNames, CciNames)
        /\ AllBefore(w.layers, CciNames, GridNames)

\* an artifact with layers of every kind: eligibility, CCI, density, WISP,
\* marker and ring
C6_Witness ==
    \E w \in written :
        \A names \in {EligibilityNames, CciNames, GridNames, WispNames, MarkerNames, RingNames} :
            Positions(w.layers, names) # {}

----------------------------------------------------------------------------
(* C7 *)

\* C7 as claimed: in the layer list of every artifact, every infrastructure
\* marker layer comes before every coverage-ring layer.
C7_MarkersBeforeRings ==
    \A w \in written : AllBefore(w.layers, MarkerNames, RingNames)

\* C7 as amended: in the layer list of every artifact, the marker layer of a
\* category comes before the coverage-ring layers of that same category, and
\* is directly followed by them (marker, 2 mile, 5 mile), one category after
\* the other.
C7_MarkerBeforeOwnRings ==
    \A w \in written :
        /\ \A c \in Range(Categories) :
              /\ AllBefore(w.layers, {MarkerName[c]}, {NearName[c], FarName[c]})
              /\ \A i \in Positions(w.layers, {MarkerName[c]}) :
                    /\ i + 2 <= Len(w.layers)
                    /\ w.layers[i + 1].name = NearName[c]
                    /\ w.layers[i + 2].name = FarName[c]
        /\ \A k \in 1..(Len(Categories) - 1) :
              AllBefore(w.layers, {FarName[Categories[k]]}, {MarkerName[Categories[k + 1]]})

\* an artifact with the marker layer and both ring layers of every category
C7_Witness ==
    \E w \in written :
        \A c \in Range(Categories) :
            \A name \in {MarkerName[c], NearName[c], FarName[c]} :
                Positions(w.layers, {name}) # {}

----------------------------------------------------------------------------
(* C8 *)

\* C8: in the layer list of every artifact, the boundary outline layer and
\* the subdivision-boundary layer are the first two layers, every eligibility
\* layer comes before every density layer, and the density layers are in
\* ascending order of their count range.
C8_BoundariesEligibilityDensity ==
    \A w \in written :
        /\ Len(w.layers) >= 2
        /\ w.layers[1].name = "State Outline"
        /\ w.layers[2].name = "County Outline"
        /\ AllBefore(w.layers, EligibilityNames, GridNames)
        /\ \A a, b \in 1..Len(GridLayerNames) :
              a < b => AllBefore(w.layers, {GridLayerNames[a]}, {GridLayerNames[b]})

\* an artifact with an eligibility layer and two density layers
C8_Witness ==
    \E w \in written :
        /\ Positions(w.layers, EligibilityNames) # {}
        /\ Cardinality(Positions(w.layers, GridNames)) >= 2

----------------------------------------------------------------------------
(* C9 *)

\* C9: in the layer list of every artifact, the 2 mile coverage-ring layer of
\* a category comes before the 5 mile coverage-ring layer of that category.
C9_NearBeforeFar ==
    \A w \in written :
        \A c \in Range(Categories) :
            AllBefore(w.layers, {NearName[c]}, {FarName[c]})

\* an artifact with both ring layers of every category, built from an
\* infrastructure file with records
C9_Witness ==
    \E w \in written :
        /\ \A c \in Range(Categories) :
              /\ Positions(w.layers, {NearName[c]}) # {}
              /\ Positions(w.layers, {FarName[c]}) # {}
        /\ \E i \in Positions(w.layers, RingNames) : w.layers[i].items # {}

----------------------------------------------------------------------------
(* C10 *)

----------------------------------------------------------------------------
(* C11 *)

\* the layers of the optional datasets
OptionalNames == SecondaryNames \cup AnchorNames \cup OverlayNames \cup MarkerNames \cup RingNames

\* the number of records of the dataset behind an optional layer, 0 when the
\* dataset is not supplied
BackingRows(name) ==
    CASE name \in SecondaryNames ->
            IF Given(args.round2_locations_file) THEN disk.round2 ELSE 0
      [] name \in AnchorNames ->
            IF Given(args.cai_locations_file) THEN disk.cai ELSE 0
      [] name = "CCI DSL" ->
            IF Lower(args.state_name) = "maine" /\ Given(args.cci_ds_file)
            THEN disk.cci_ds ELSE 0
      [] name = "CCI Fiber" ->
            IF Lower(args.state_name) = "maine" /\ Given(args.cci_fiber_file)
            THEN disk.cci_fiber ELSE 0
      [] name \in WispNames ->
            LET listing == Listing(frame["wisp_folder"])
                entries == {e \in Range(listing) :
                               e.ext = ".sqlite" /\ WispLayerName(e.stem) = name}
            IN  IF entries = {} THEN 0 ELSE (CHOOSE e \in entries : TRUE).rows
      [] name \in MarkerNames \cup RingNames ->
            LET c == CHOOSE c \in Range(Categories) :
                         name \in {MarkerName[c], NearName[c], FarName[c]}
            IN  IF Given(args.antenna_file) THEN Cardinality(Towers(disk.antenna, c)) ELSE 0

\* C11: in the layer list of every artifact, an optional layer is present if
\* and only if the dataset behind it has at least one record, and no layer
\* that is present is empty: no marker or coverage-ring layer for a category
\* with no infrastructure record, no overlay layer for a file with no feature.
C11_OptionalLayerIffNonEmpty ==
    \A w \in written :
        /\ \A name \in OptionalNames :
              Positions(w.layers, {name}) # {} <=> BackingRows(name) > 0
        /\ \A i \in Positions(w.layers, OptionalNames) : w.layers[i].items # {}

----------------------------------------------------------------------------
(* C12 *)

\* C12: when the secondary-round file is supplied and holds zero points, no
\* composition, finished or not, and no artifact has a secondary-round layer,
\* not even an empty one; likewise no community-anchor layer when the
\* community-anchor file is supplied and holds zero points.
C12_EmptyDatasetNoLayer ==
    /\ (Given(args.round2_locations_file) /\ disk.round2 = 0) =>
          /\ Positions(m.layers, SecondaryNames) = {}
          /\ \A w \in written : Positions(w.layers, SecondaryNames) = {}
    /\ (Given(args.cai_locations_file) /\ disk.cai = 0) =>
          /\ Positions(m.layers, AnchorNames) = {}
          /\ \A w \in written : Positions(w.layers, AnchorNames) = {}

\* an artifact of a run that loaded a secondary-round and a community-anchor
\* file of zero points each (so its primary layer is named "Round 1") and has
\* neither a secondary-round nor a community-anchor layer
C12_Witness ==
    /\ Given(args.round2_locations_file) /\ disk.round2 = 0
    /\ Given(args.cai_locations_file) /\ disk.cai = 0
    /\ \E w \in written :
          /\ Positions(w.layers, {"BEAD Eligible Locations Round 1"}) # {}
          /\ Positions(w.layers, SecondaryNames \cup AnchorNames) = {}

----------------------------------------------------------------------------
(* C13 *)

\* the aggregate coverage layers, of all categories together
AggregateNames == {"Antenna Coverage (2 Miles)", "Antenna Coverage (5 Miles)"}

\* the infrastructure file is supplied and holds exactly one record of each
\* of the four categories
OnePerCategory ==
    /\ Given(args.antenna_file)
    /\ Len(disk.antenna) = Len(Categories)
    /\ \A c \in Range(Categories) : Cardinality(Towers(disk.antenna, c)) = 1

\* C13: a region whose infrastructure file has exactly one record of each of
\* the four categories is saved with exactly 4 marker layers and exactly 8
\* coverage-ring layers, one of each name, each holding the one record of its
\* category, with no aggregate coverage layer, all of them hidden by default.
C13_FourMarkersEightRings ==
    (OnePerCategory /\ RequiredFiles \subseteq disk.files /\ Terminated) =>
        /\ pc = "done"
        /\ written # {}
        /\ \A w \in written :
              /\ Cardinality(Positions(w.layers, MarkerNames)) = 4
              /\ Cardinality(Positions(w.layers, RingNames)) = 8
              /\ \A name \in MarkerNames \cup RingNames :
                    Cardinality(Positions(w.layers, {name})) = 1
              /\ Positions(w.layers, AggregateNames) = {}
              /\ \A i \in Positions(w.layers, MarkerNames \cup RingNames) :
                    /\ ~w.layers[i].show
                    /\ Cardinality(w.layers[i].items) = 1

\* an artifact of a region with one record per category, with twelve
\* infrastructure layers in its list
C13_Witness ==
    /\ OnePerCategory
    /\ pc = "done"
    /\ \E w \in written : Cardinality(Positions(w.layers, MarkerNames \cup RingNames)) = 12

----------------------------------------------------------------------------
(* C14 *)

\* what the claim compares of a layer list: the names, in order, each with
\* its default-visibility flag
NamesAndFlags(layers) == [i \in 1..Len(layers) |-> [name |-> layers[i].name, show |-> layers[i].show]]

\* C14: when a region is generated again from the same inputs, every artifact
\* saved for it has the same layer names, in the same order, with the same
\* default-visibility flags as every artifact saved for it before.
C14_SameLayerList ==
    \A w1, w2 \in written :
        w1.out_file = w2.out_file => NamesAndFlags(w1.layers) = NamesAndFlags(w2.layers)

\* a region generated twice: two artifacts of it that differ (in the colour of
\* an overlay layer) and have the same names and flags, with boundary,
\* density, overlay, marker and ring layers among them
C14_Witness ==
    \E w1, w2 \in written :
        /\ w1 # w2
        /\ w1.out_file = w2.out_file
        /\ NamesAndFlags(w1.layers) = NamesAndFlags(w2.layers)
        /\ Cardinality(Positions(w1.layers, WispNames)) >= 2
        /\ \A names \in {BoundaryNames, GridNames, MarkerNames, RingNames} :
              Positions(w1.layers, names) # {}

----------------------------------------------------------------------------
(* C15 *)

\* C15: the colour of an overlay layer is a function of the dataset's name:
\* in the artifacts of a region generated again and again, two overlay
\* layers of the same name have the same colour, whether the name matches a
\* known provider or none.
C15_ColourByName ==
    \A w1, w2 \in written :
        \A i \in Positions(w1.layers, WispNames), j \in Positions(w2.layers, WispNames) :
            w1.layers[i].name = w2.layers[j].name => w1.layers[i].color = w2.layers[j].color

----------------------------------------------------------------------------
(* C16 *)

\* the frame of the extractor has its grouped_entity column
Grouped == pc \in {"to_file", "extracted"}

\* the rows of the grouped frame, when the frame has an entity column
NamedRows ==
    IF Grouped /\ frame["df"].has_entity
    THEN {frame["df"].rows[i] : i \in 1..Len(frame["df"].rows)}
    ELSE {}

\* the entity name of the row contains the text, in any letter case
ContainsAnyCase(row, text) ==
    ~row.entity.isna /\ str_in(str_lower(text), str_lower(row.entity.str))

CrownCastleText == <<"C", "r", "o", "w", "n", " ", "C", "a", "s", "t", "l", "e">>

\* C16 as claimed: every row whose entity name contains the text "Crown
\* Castle" in any letter case is given the category Crown Castle.
C16_CrownCastleName ==
    \A row \in NamedRows :
        ContainsAnyCase(row, CrownCastleText) => row.grouped_entity = "Crown Castle"

\* the texts that give a name to a category tried before Crown Castle
EarlierTexts ==
    { <<"a", "m", "e", "r", "i", "c", "a", "n", " ", "t", "o", "w", "e", "r">>,
      <<"a", "m", "t">>,
      <<"s", "b", "a">> }

\* C16 as amended: every row whose entity name contains the text "Crown
\* Castle" in any letter case, and contains none of the texts "american
\* tower", "amt" and "sba" in any letter case, is given the category Crown
\* Castle.
C16_CrownCastleNameAlone ==
    \A row \in NamedRows :
        (/\ ContainsAnyCase(row, CrownCastleText)
         /\ \A text \in EarlierTexts : ~ContainsAnyCase(row, text))
            => row.grouped_entity = "Crown Castle"

\* a grouped frame with a row named "CROWN CASTLEVerizon", in the category
\* Crown Castle
C16_Witness ==
    \E row \in NamedRows :
        /\ row.entity = Str(<<"C", "R", "O", "W", "N", " ", "C", "A", "S", "T", "L", "E", "V", "e", "r", "i", "z", "o", "n">>)
        /\ row.grouped_entity = "Crown Castle"

----------------------------------------------------------------------------
(* C17 *)

\* the categories of the classifier in their priority order, each with its
\* pattern list
Priority ==
    << [category |-> "American Towers",
        patterns |-> <<<<"a", "m", "e", "r", "i", "c", "a", "n", " ", "t", "o", "w", "e", "r">>,
                       <<"a", "m", "t">>,
                       <<"a", "m", "e", "r", "i", "c", "a", "n", " ", "t", "o", "w", "e", "r", "s">>>>],
       [category |-> "SBA",
        patterns |-> <<<<"s", "b", "a">>,
                       <<"s", "b", "a", " ", "c", "o", "m", "m", "u", "n", "i", "c", "a", "t", "i", "o", "n", "s">>,
                       <<"s", "b", "a", " ", "c", "o", "m", "m">>>>],
       [category |-> "Crown Castle",
        patterns |-> <<<<"c", "r", "o", "w", "n", " ", "c", "a", "s", "t", "l", "e">>,
                       <<"c", "r", "o", "w", "n">>,
                       <<"c", "c", "i", "c">>>>] >>

\* the category of an entity value as specified: the first category in
\* priority order with a pattern that is a substring of the name without
\* regard to letter case; "Other" for no match and for a missing value
Classified(entity) ==
    LET hits == {k \in 1..Len(Priority) :
                    /\ ~entity.isna
                    /\ \E j \in 1..Len(Priority[k].patterns) :
                          str_in(str_lower(Priority[k].patterns[j]), str_lower(entity.str))}
    IN  IF hits = {} THEN "Other"
        ELSE Priority[CHOOSE k \in hits : \A j \in hits : k <= j].category

\* C17: the classifier is total and deterministic: once a non-empty query
\* result of a known region is grouped, every row has exactly one of the four
\* categories, the one of the first of American Towers, SBA, Crown Castle with
\* a case-insensitive substring match; a row with no match, a missing name or
\* an empty name has "Other", and so has every row of a frame with no entity
\* column; the file written holds these categories, and the extraction does
\* not fail.
C17_ClassifierTotal ==
    /\ (args.state_name \in DOMAIN STATE_NAME_TO_ABBR /\ disk.db.rows # <<>>) =>
          pc # "extract_failed"
    /\ Grouped =>
          /\ Len(frame["df"].rows) = Len(disk.db.rows)
          /\ \A i \in 1..Len(frame["df"].rows) :
                /\ frame["df"].rows[i].grouped_entity \in GroupedEntities
                /\ frame["df"].rows[i].grouped_entity =
                       IF frame["df"].has_entity THEN Classified(disk.db.rows[i].entity)
                       ELSE "Other"
    /\ pc = "extracted" =>
          /\ Len(disk.antenna) = Len(disk.db.rows)
          /\ \A i \in 1..Len(disk.antenna) :
                disk.antenna[i].grouped_entity = frame["df"].rows[i].grouped_entity

\* an infrastructure file written from a row named "SBA Crown Castle", which
\* matches the patterns of two categories and has the one tried first
C17_Witness ==
    /\ pc = "extracted"
    /\ disk.db.has_entity
    /\ disk.db.rows = <<[entity |-> Str(<<"S", "B", "A", " ", "C", "r", "o", "w", "n", " ", "C", "a", "s", "t", "l", "e">>), lat |-> 0]>>
    /\ disk.antenna = <<[grouped_entity |-> "SBA", lat |-> 0]>>

----------------------------------------------------------------------------
(* C18 *)

\* the popups of the subdivision polygons are built from a supplied table
Joined == m.popups # <<>> /\ Given(args.cbrs_file)

\* the names of the subdivision polygons
PolygonNames == Range(disk.counties)

RECURSIVE SumOfLengths(_)
SumOfLengths(lists) ==
    IF lists = <<>> THEN 0 ELSE Len(Head(lists)) + SumOfLengths(Tail(lists))

\* the number of records in the record lists of all polygons
JoinedCount == SumOfLengths([i \in 1..Len(m.popups) |-> m.popups[i].cbrs_info])

\* the records the join holds under a key that is no polygon's name: the code
\* keeps no count of them, this is the most a count of its own could say
DroppedRecords ==
    {r \in Range(disk.cbrs) :
        /\ r.county_name \in DOMAIN frame["cbrs_data"]
        /\ r \in Range(frame["cbrs_data"][r.county_name])
        /\ r.county_name \notin PolygonNames}

\* C18: the join accounts for every record of the license table: a record
\* whose county_name is no polygon's name is in no polygon's record list, and
\* the number of dropped records plus the lengths of all record lists is the
\* number of records of the table.
C18_JoinAccountsForAll ==
    Joined =>
        /\ \A r \in Range(disk.cbrs) :
              r.county_name \notin PolygonNames =>
                  \A i \in 1..Len(m.popups) : r \notin Range(m.popups[i].cbrs_info)
        /\ Cardinality(DroppedRecords) + JoinedCount = Len(disk.cbrs)

----------------------------------------------------------------------------
(* C19 *)

\* the records of the supplied license table, none when no table is supplied
InputRecords == IF Given(args.cbrs_file) THEN disk.cbrs ELSE <<>>

\* C19: once the popups are built there is one per subdivision polygon, and
\* the records attached to a polygon are exactly the records of the table
\* whose state_abbr is the region's abbreviation and whose county_name is
\* equal, letter case included, to the polygon's name, in the order of the
\* table; a polygon with no such record has the empty list, and no record of
\* another state is attached.
C19_RecordsOfPolygon ==
    m.popups # <<>> =>
        /\ Len(m.popups) = Len(disk.counties)
        /\ \A i \in 1..Len(m.popups) :
              /\ m.popups[i].county_name = disk.counties[i]
              /\ m.popups[i].cbrs_info =
                     SelectSeq(InputRecords,
                               LAMBDA r : /\ r.state_abbr = get_state_abbreviation(args.state_name)
                                          /\ r.county_name = disk.counties[i])
              /\ \A r \in Range(m.popups[i].cbrs_info) :
                    r.state_abbr = get_state_abbreviation(args.state_name)

\* the popups of a Maine run on a table with three Maine and two Texas rows:
\* the polygon "York" has the rows 1 and 5, in this order, not the Maine row
\* of "york" and not the Texas row of "York"; the polygon "Knox" has none
C19_Witness ==
    /\ args.state_name = "Maine"
    /\ Given(args.cbrs_file)
    /\ disk.cbrs = SampleCbrs
    /\ Len(m.popups) = 2
    /\ m.popups[1].county_name = "York"
    /\ m.popups[1].cbrs_info = <<SampleCbrs[1], SampleCbrs[5]>>
    /\ m.popups[2].cbrs_info = <<>>

----------------------------------------------------------------------------
(* C20 *)

NearNames == {NearName[c] : c \in Range(Categories)}

\* miles / (69.0 * cos(latitude)) * 111000 in tenths of a metre, to the
\* nearest tenth: 2/69*111000 = 3217.39.. and 5/69*111000 = 8043.47.. at
\* latitude 0, and twice as much at the latitudes 60 and -60, where the
\* cosine is one half
SpecifiedTenths(lat, miles) ==
    CASE lat = 0 /\ miles = 2 -> 32174
      [] lat = 0 /\ miles = 5 -> 80435
      [] lat \in {60, -60} /\ miles = 2 -> 64348
      [] lat \in {60, -60} /\ miles = 5 -> 160870

\* C20: in every composition, every circle of a coverage-ring layer stands at
\* the latitude of its record and has the radius
\* miles / (69.0 * cos(latitude)) * 111000, with 2 miles in a 2 mile layer
\* and 5 miles in a 5 mile layer: about 3217.4 m and 8043.5 m at latitude 0;
\* the radius depends on the latitude and the distance alone.
C20_RingRadius ==
    \A i \in Positions(m.layers, RingNames) :
        \A circle \in m.layers[i].items :
            /\ circle.lat = disk.antenna[circle.row].lat
            /\ circle.radius =
                   SpecifiedTenths(circle.lat, IF m.layers[i].name \in NearNames THEN 2 ELSE 5)

\* a composition with a 2 mile circle of 3217.4 m and a 5 mile circle of
\* 8043.5 m at latitude 0, and a 2 mile circle at latitude 60
C20_Witness ==
    /\ \E i \in Positions(m.layers, NearNames) :
          \E circle \in m.layers[i].items : circle.lat = 0 /\ circle.radius = 32174
    /\ \E i \in Positions(m.layers, RingNames \ NearNames) :
          \E circle \in m.layers[i].items : circle.lat = 0 /\ circle.radius = 80435
    /\ \E i \in Positions(m.layers, NearNames) :
          \E circle \in m.layers[i].items : circle.lat = 60

----------------------------------------------------------------------------
(* The vocabulary of the claims about a batch *)

\* the lines of the kind among the printed ones, in order
Lines(kind) == SelectSeq(batch.printed, LAMBDA l : l.line = kind)

\* the regions whose processing was started, in the order they were started
Attempted == [k \in 1..Len(Lines("heading")) |-> Lines("heading")[k].state_name]

\* generate_all_maps has left its loop
LoopEnded == batch.pc \in {"summary", "returned", "raised"}

\* generate_all_maps has ended, by returning or by an exception
BatchEnded == batch.pc \in {"returned", "raised"}

\* the loop was left by a cancellation
WasCancelled == Lines("interrupted") # <<>>

\* the value printed in the summary line of the kind
Reported(kind) == Lines(kind)[1].value

----------------------------------------------------------------------------
(* C21 *)

\* C21: the regions attempted so far are the first regions of the list, each
\* once and in list order, whatever the earlier ones did; and when the loop
\* of a batch that was not cancelled has ended, every region of the list has
\* been attempted and successful + failed is the length of the list.
C21_FailureIsolated ==
    /\ batch.pc # "start" =>
          /\ batch.i <= Len(batch.state_folders)
          /\ Attempted = SubSeq(batch.state_folders, 1, batch.i)
    /\ (LoopEnded /\ ~WasCancelled) =>
          /\ batch.i = Len(batch.state_folders)
          /\ batch.successful + batch.failed = Len(batch.state_folders)

\* a batch of two regions that has returned: the first failed, the second
\* was attempted all the same and succeeded
C21_Witness ==
    /\ batch.pc = "returned"
    /\ ~WasCancelled
    /\ Len(batch.state_folders) = 2
    /\ Len(Lines("error")) = 1
    /\ Lines("error")[1].state_name = batch.state_folders[1]
    /\ Lines("completed") = <<Line("completed", batch.state_folders[2], 0, "")>>
    /\ batch.successful = 1
    /\ batch.failed = 1

----------------------------------------------------------------------------
(* C22 *)

\* the lines of the complete final summary
SummaryKinds == {"successful", "failed", "total_time", "average"}

\* C22: every batch over a non-empty region list ends by returning, without
\* an exception, after printing the complete final summary: the success
\* count, the failure count, the elapsed time and the mean time per region;
\* also when every region failed and when the batch was cancelled before any
\* region was completed.
C22_SummaryComplete ==
    (BatchEnded /\ batch.state_folders # <<>>) =>
        /\ batch.pc = "returned"
        /\ batch.raised = ""
        /\ \A kind \in SummaryKinds : Len(Lines(kind)) = 1
        /\ Reported("successful") = batch.successful
        /\ Reported("failed") = batch.failed

----------------------------------------------------------------------------
(* C23 *)

\* the place of the last heading among the printed lines, 0 when there is none
LastHeading ==
    LET at == {k \in 1..Len(batch.printed) : batch.printed[k].line = "heading"}
    IN  IF at = {} THEN 0 ELSE CHOOSE k \in at : \A j \in at : j <= k

\* the lines printed after the last heading
AfterLastHeading == SubSeq(batch.printed, LastHeading + 1, Len(batch.printed))

\* C23: once a KeyboardInterrupt has ended the processing of region i, the
\* loop has ended and no region after i was started; the interrupted region
\* has neither a "completed" nor an "error" line and is counted neither as a
\* success nor as a failure: successful and failed are the numbers of the
\* regions completed, respectively failed, before it; and these are the
\* counts the summary prints.
C23_CancelAtRegion ==
    WasCancelled =>
        /\ LoopEnded
        /\ Attempted = SubSeq(batch.state_folders, 1, batch.i)
        /\ \A k \in 1..Len(AfterLastHeading) :
              AfterLastHeading[k].line \notin {"completed", "error", "heading"}
        /\ batch.successful = Len(Lines("completed"))
        /\ batch.failed = Len(Lines("error"))
        /\ batch.successful + batch.failed = batch.i - 1
        /\ BatchEnded =>
              /\ Len(Lines("successful")) = 1
              /\ Len(Lines("failed")) = 1
              /\ Reported("successful") = Len(Lines("completed"))
              /\ Reported("failed") = Len(Lines("error"))

\* a batch of three regions cancelled in its second region, after the first
\* was completed: the third was never started and the summary says 1 and 0
C23_Witness ==
    /\ WasCancelled
    /\ batch.pc = "returned"
    /\ Len(batch.state_folders) = 3
    /\ batch.i = 2
    /\ Attempted = SubSeq(batch.state_folders, 1, 2)
    /\ Reported("successful") = 1
    /\ Reported("failed") = 0

----------------------------------------------------------------------------
(* C24 *)

\* the file at the output location of the region in process
OutLocation == OutFile("Results", args.state_name)

\* the content of the files under Results when the region's processing began
Previous == batch.data.folders[Region].html

\* C24: the artifact write is all-or-nothing: while a region is processed
\* and after its processing has failed or was cancelled at any point, the
\* save included, every file under Results is a complete artifact, and the
\* output location holds the complete new artifact, or what it held before
\* (the previous artifact, or no file).
C24_WriteAllOrNothing ==
    batch.pc = "region" =>
        /\ \A out_file \in DOMAIN disk.html : disk.html[out_file].complete
        /\ \/ disk.html = Previous
           \/ /\ OutLocation \in DOMAIN disk.html
              /\ disk.html[OutLocation] = Rendered(m)

----------------------------------------------------------------------------
(* C25 *)

\* the specified place of a region's artifact, within the region's folder
ArtifactPath(region) == <<"Results", region \o " BEAD Map with FCC Towers.html">>

\* C25: when the processing of a region has run to its end, the region's
\* Results directory exists and the run has written exactly one file, the
\* complete artifact at '<region> BEAD Map with FCC Towers.html' under
\* Results in the region's folder; every artifact of the data folder lies in
\* the folder of its region under the name of its region, so no two regions
\* write to the same file.
C25_OneArtifactPerRegion ==
    /\ (batch.pc = "region" /\ pc = "done") =>
          /\ "Results" \in disk.dirs
          /\ DOMAIN disk.html = DOMAIN Previous \cup {ArtifactPath(Region)}
          /\ disk.html[ArtifactPath(Region)] = Rendered(m)
          /\ \A out_file \in DOMAIN Previous \ {ArtifactPath(Region)} :
                disk.html[out_file] = Previous[out_file]
          /\ \E w \in written : w.out_file = ArtifactPath(Region) /\ w.layers = m.layers
    /\ batch.pc # "none" =>
          /\ \A region \in StateNames :
                /\ DOMAIN batch.data.folders[region].html \subseteq {ArtifactPath(region)}
                /\ region \notin Range(Attempted) => batch.data.folders[region].html = <<>>
          /\ \A r1, r2 \in StateNames :
                r1 # r2 => <<r1>> \o ArtifactPath(r1) # <<r2>> \o ArtifactPath(r2)

\* a batch that has returned after two distinct regions succeeded: the
\* Results directory of each, absent before, is there and holds the region's
\* one artifact
C25_Witness ==
    /\ batch.pc = "returned"
    /\ batch.successful = 2
    /\ \E r1, r2 \in Range(batch.state_folders) :
          /\ r1 # r2
          /\ \A r \in {r1, r2} :
                /\ "Results" \in batch.data.folders[r].dirs
                /\ DOMAIN batch.data.folders[r].html = {ArtifactPath(r)}
                /\ batch.data.folders[r].html[ArtifactPath(r)].complete

----------------------------------------------------------------------------
(* C26 *)

\* the exceptions of a region whose required dataset is missing or
\* unreadable, and of one whose layers cannot be put together
RegionErrors == {"DataSourceError", "UnboundLocalError"}

----------------------------------------------------------------------------
(* C27 *)

\* the region names of the model in ascending order: capital letters come
\* before small ones
NameOrder == <<"Atlantis", "Maine", "Texas", "maine">>

\* the place of the name in the order
Rank(name) == CHOOSE k \in 1..Len(NameOrder) : NameOrder[k] = name

\* the batch runs on the regions it has found itself
Discovered == batch.pc \notin {"none", "start"} /\ batch.state_list.none

\* C27: the discovered region list holds exactly the subdirectories of the
\* data folder in which the state outline, the county outline, the eligible
\* locations and the grid analysis layer, each named after the directory,
\* all exist; it is in ascending name order with no name twice; a directory
\* that misses any one of the four is not in it, a plain file is not in it,
\* and a data folder that does not exist gives the empty list.
C27_DiscoveredRegions ==
    Discovered =>
        /\ Range(batch.state_folders) =
               {name \in batch.data.subdirs :
                   \A file \in RequiredFiles : file \in batch.data.folders[name].files}
        /\ \A k \in 1..(Len(batch.state_folders) - 1) :
              Rank(batch.state_folders[k]) < Rank(batch.state_folders[k + 1])
        /\ ~batch.data.exists => batch.state_folders = <<>>

\* a data folder with the subdirectories Maine, Texas and maine, of which
\* Texas misses a required file: the list found is Maine, then maine
C27_Witness ==
    /\ Discovered
    /\ batch.data.subdirs = {"Maine", "Texas", "maine"}
    /\ batch.data.plain # {}
    /\ ~(RequiredFiles \subseteq batch.data.folders["Texas"].files)
    /\ batch.state_folders = <<"Maine", "maine">>

----------------------------------------------------------------------------
(* C28 *)

\* the region names of the model that are neither a state's name nor one in
\* another letter case
UnknownNames == {"Atlantis"}

\* the artifact of the region in the data folder of the batch
ArtifactOf(region) == batch.data.folders[region].html[ArtifactPath(region)]

\* the region's folder holds a complete artifact
HasArtifact(region) ==
    /\ ArtifactPath(region) \in DOMAIN batch.data.folders[region].html
    /\ ArtifactOf(region).complete

\* the two regions had the same files before the batch
SameFolder(r1, r2) ==
    LET before(r) == [batch.data.folders[r] EXCEPT !.html = <<>>, !.dirs = {}]
    IN  before(r1) = before(r2)

\* C28: for a region name with no state abbreviation, get_state_abbreviation
\* gives None and no license record is joined to any subdivision polygon,
\* though the license table is given and exists; the run fails only for the
\* reasons a known region fails for (a required file or the infrastructure
\* file is missing), and its artifact has the layers and the polygons of a
\* known region with the same files, in the same order.
C28_UnknownRegion ==
    /\ (batch.pc = "region" /\ args.state_name \in UnknownNames) =>
          /\ "state_abbr" \in DOMAIN frame => frame["state_abbr"] = NoAbbr
          /\ "cbrs_data" \in DOMAIN frame => frame["cbrs_data"] = <<>>
          /\ \A i \in 1..Len(m.popups) : m.popups[i].cbrs_info = <<>>
          /\ (pc = "raised" /\ raised = "DataSourceError") => ~(RequiredFiles \subseteq disk.files)
          /\ (pc = "raised" /\ raised = "UnboundLocalError") => disk.files \cap AntennaFiles = {}
          /\ pc = "done" => disk.html[ArtifactPath(Region)] = Rendered(m)
    /\ batch.pc # "none" =>
          \A unknown \in UnknownNames, known \in StateNames \ UnknownNames :
              (HasArtifact(unknown) /\ HasArtifact(known) /\ SameFolder(unknown, known)
                   /\ Lower(known) # "maine") =>
                  /\ ArtifactOf(unknown).layers = ArtifactOf(known).layers
                  /\ Len(ArtifactOf(unknown).popups) = Len(ArtifactOf(known).popups)
                  /\ \A i \in 1..Len(ArtifactOf(unknown).popups) :
                        /\ ArtifactOf(unknown).popups[i].county_name
                               = ArtifactOf(known).popups[i].county_name
                        /\ ArtifactOf(unknown).popups[i].cbrs_info = <<>>

\* a batch that has returned after Texas and Atlantis, with the same files
\* and the same license table, both succeeded: a polygon of Texas carries a
\* license record, no polygon of Atlantis does, and the layers are the same
C28_Witness ==
    /\ batch.pc = "returned"
    /\ batch.successful = 2
    /\ Range(batch.state_folders) = {"Texas", "Atlantis"}
    /\ SameFolder("Atlantis", "Texas")
    /\ HasArtifact("Atlantis") /\ HasArtifact("Texas")
    /\ CbrsPath \in batch.data.folders["Atlantis"].files
    /\ \E i \in 1..Len(ArtifactOf("Texas").popups) : ArtifactOf("Texas").popups[i].cbrs_info # <<>>
    /\ ArtifactOf("Atlantis").layers = ArtifactOf("Texas").layers
    /\ ArtifactOf("Atlantis").layers # <<>>
    /\ \A i \in 1..Len(ArtifactOf("Atlantis").popups) : ArtifactOf("Atlantis").popups[i].cbrs_info = <<>>

----------------------------------------------------------------------------
(* C30 *)

\* the layers of the names in the list that hold the marker of the row
MarkerLayers(layers, names, row) == {i \in Positions(layers, names) : row \in layers[i].items}

\* the rings of the row in the layer
RingsOf(layer, row) == {circle \in layer.items : circle.row = row}

\* the layers of the names in the list that hold a ring of the row
RingLayers(layers, names, row) ==
    {i \in Positions(layers, names) : RingsOf(layers[i], row) # {}}

\* C30: in every artifact of a region whose infrastructure file is given and
\* exists, every record of the file has its marker in exactly one marker
\* layer, the one of its category, and a ring in exactly two ring layers, the
\* 2 mile and the 5 mile layer of that category, one ring in each, at the
\* record's location, the 5 mile ring the wider one; the marker and ring
\* layers hold nothing but the records of the file.
C30_OneCategoryPerRecord ==
    Given(args.antenna_file) =>
        \A w \in written :
            /\ \A row \in 1..Len(disk.antenna) :
                  LET c == disk.antenna[row].grouped_entity
                      near == RingLayers(w.layers, {NearName[c]}, row)
                      far == RingLayers(w.layers, {FarName[c]}, row)
                  IN  /\ Cardinality(MarkerLayers(w.layers, MarkerNames, row)) = 1
                      /\ MarkerLayers(w.layers, MarkerNames, row)
                             = MarkerLayers(w.layers, {MarkerName[c]}, row)
                      /\ Cardinality(near) = 1
                      /\ Cardinality(far) = 1
                      /\ RingLayers(w.layers, RingNames, row) = near \cup far
                      /\ \A i \in near \cup far :
                            /\ Cardinality(RingsOf(w.layers[i], row)) = 1
                            /\ \A circle \in RingsOf(w.layers[i], row) :
                                  circle.lat = disk.antenna[row].lat
                      /\ \A i \in near, j \in far :
                            \A n \in RingsOf(w.layers[i], row), f \in RingsOf(w.layers[j], row) :
                                n.radius < f.radius
            /\ \A i \in Positions(w.layers, MarkerNames) :
                  w.layers[i].items \subseteq 1..Len(disk.antenna)
            /\ \A i \in Positions(w.layers, RingNames) :
                  \A circle \in w.layers[i].items : circle.row \in 1..Len(disk.antenna)

\* an artifact of a region whose infrastructure file has two records of two
\* categories at two latitudes: each marker and each ring pair is in the
\* layers of its own category
C30_Witness ==
    /\ Given(args.antenna_file)
    /\ Len(disk.antenna) = 2
    /\ disk.antenna[1].grouped_entity = "SBA" /\ disk.antenna[2].grouped_entity = "Crown Castle"
    /\ disk.antenna[1].lat # disk.antenna[2].lat
    /\ \E w \in written :
          /\ MarkerLayers(w.layers, MarkerNames, 1) = Positions(w.layers, {MarkerName["SBA"]})
          /\ RingLayers(w.layers, RingNames, 2)
                 = Positions(w.layers, {NearName["Crown Castle"], FarName["Crown Castle"]})
          /\ Cardinality(RingLayers(w.layers, RingNames, 2)) = 2

----------------------------------------------------------------------------
(* C29 *)

\* the calls of organize_files that have returned, with and without dry_run
DryCalls == {call \in written : call.dry_run}

RealCalls == {call \in written : ~call.dry_run}

\* C29: organize_files called with dry_run=True creates, copies, moves and
\* deletes nothing (the file system is the same at every step of the call
\* and at its end as before it), and the list of actions it returns is the
\* list a call with dry_run=False on that same file system returns.
C29_DryRunFaithful ==
    /\ (pc = "organize" /\ frame["dry_run"]) => disk = frame["before"]
    /\ \A call \in DryCalls : call.after = call.before
    /\ \A dry \in DryCalls, real \in RealCalls :
          dry.before = real.before => dry.actions = real.actions

====
